---- MODULE Spec2Model ----
(***************************************************************************)
(* Model of the Aston travel-demand simulation.                            *)
(*                                                                         *)
(* Geometry.  Coordinates are points of a line, measured in units of       *)
(* 1/60 km, so that the engine's speeds and thresholds are integers:       *)
(* 5/60 km per minute of walking is 5 units, 20/60 km per minute of bus    *)
(* travel is 20 units, and the 0.3 km direct-walk threshold is 18 units.   *)
(* haversineDistance is the distance on that line.  A vehicle's progress   *)
(* (a fraction of the segment in the code) is kept as the distance already *)
(* covered on the segment, so progress >= 1 reads progress >= dist.        *)
(*                                                                         *)
(* Minutes are counted from the start of the run.                          *)
(***************************************************************************)
EXTENDS Integers, Sequences, FiniteSets, TLC

VARIABLES
    agents,         \* Agent[]   (engine.ts createAgents / stepSimulation)
    vehicles,       \* Vehicle[] (engine.ts createVehicles / stepSimulation)
    currentMinute,  \* the minute handed to stepSimulation
    BUS_STOPS,      \* the stop set of the data module
    BUS_ROUTES,     \* the routes of the data module
    dataModule,     \* which of the two astonData modules the engine is linked with
    waitStreak,     \* history: per agent, consecutive ticks begun and ended in waiting
    prevAgents,     \* history: the agents as they were before the last tick
    flow,           \* flow accumulator: directed edge -> [count, hourly]
    flowLog,        \* history: the record() calls since the last clear()
    flowCleared,    \* history: clear() has been called
    graphStops,     \* transit graph: the stop list it is built over
    graphDistance,  \* transit graph: the distance between two stops
    graphK,         \* transit graph: the neighbour count k
    graph,          \* transit graph: the neighbours of each stop, as last built
    lastQuery,      \* the last shortest-path query and what it returned
    adjacency,      \* transit graph: the adjacency lists, as last built
    graphFingerprint,  \* path cache: the fingerprint of the stop set the graph was built over
    pathCache,      \* path cache: (origin, destination) -> memoized path
    networkStops,   \* the stop ids handed to the route generator
    flowEdges,      \* the flow edges the route generator reads, in snapshot order
    policy,         \* the policy parameters of route generation
    generatedRoutes, \* the routes last generated
    isRunning,      \* useSimulation state: a run has been started
    isPaused,       \* useSimulation state: the run is paused
    scenario,       \* useSimulation state: "baseline" or "proposal"
    initialAgents,  \* useSimulation state: the agents as created by start
    metrics,        \* useSimulation state: the totals the snapshots read
    analysis,       \* useSimulation state: the baseline and proposal snapshots
    timerRef,       \* the interval timer of the tick effect is pending
    startPending,   \* a start command is awaiting its POI fetch
    generatePending, \* a generate command is awaiting the geometry enrichment
    runCount,       \* history: the scenarios begun so far
    lastCommand,    \* history: the command or callback that ran last
    stepError,      \* the last stepSimulation call threw
    scheduled,      \* generateSchedule: its inputs and, once called, what it returned
    moved           \* moveToward: its inputs and, once called, what it returned

engineVars == <<agents, vehicles, currentMinute, BUS_STOPS, BUS_ROUTES, dataModule,
                waitStreak, prevAgents, stepError>>

flowVars == <<flow, flowLog, flowCleared>>

graphVars == <<graphStops, graphDistance, graphK, graph, lastQuery,
               adjacency, graphFingerprint, pathCache>>

routeVars == <<networkStops, flowEdges, policy, generatedRoutes>>

hookVars == <<isRunning, isPaused, scenario, initialAgents, metrics, analysis,
              timerRef, startPending, generatePending, runCount, lastCommand>>

unitVars == <<scheduled, moved>>

vars == <<engineVars, flowVars, graphVars, routeVars, hookVars, unitVars>>

----------------------------------------------------------------------------
(* Bounds of the model *)

MaxMinute == 48
MaxFlowRecords == 5

(* Program constants, in units of 1/60 km and minutes *)

WALKING_SPEED_KM_PER_MIN == 5
BUS_SPEED_KM_PER_MIN == 20
DIRECT_WALK_KM == 18
WAIT_LIMIT == 15
MIN_VEHICLES == 2
FREQUENCY_WINDOW == 30

NULL == "null"
NullLoc == 0 - 1

Max(a, b) == IF a >= b THEN a ELSE b
Min(a, b) == IF a <= b THEN a ELSE b

----------------------------------------------------------------------------
(* astonData: distance and stop lookup *)

haversineDistance(a, b) == IF a >= b THEN a - b ELSE b - a

HasStop(id) == \E i \in 1..Len(BUS_STOPS) : BUS_STOPS[i].id = id

StopById(id) == BUS_STOPS[CHOOSE i \in 1..Len(BUS_STOPS) : BUS_STOPS[i].id = id]

\* What stops[0] is for an empty array: a value with no id and no location.
undefined == [ undefined |-> TRUE ]

\* The first stop at minimal distance (strict < keeps the earlier one); of an
\* empty array the loop body never runs and stops[0] is returned.
nearestStopFrom(stops, location) ==
    LET d(i) == haversineDistance(location, stops[i].location)
        best == CHOOSE i \in 1..Len(stops) :
                    \A j \in 1..Len(stops) : d(i) < d(j) \/ (d(i) = d(j) /\ i <= j)
    IN  IF Len(stops) = 0 THEN undefined ELSE stops[best]

findNearestStop(location) == nearestStopFrom(BUS_STOPS, location)

SeqIncludes(s, x) == \E i \in 1..Len(s) : s[i] = x

\* part_001: the stop, other than the origin, on a route through the origin
\* stop that is closest to the destination; the nearest stop when there is none.
findDestinationStopOnRoutes(originStopId, destination) ==
    LET availableRoutes == SelectSeq(BUS_ROUTES, LAMBDA r : SeqIncludes(r.stopIds, originStopId))
        \* candidates in iteration order: route by route, stop by stop
        slots == UNION { { <<ri, si>> : si \in 1..Len(availableRoutes[ri].stopIds) } :
                         ri \in 1..Len(availableRoutes) }
        cand == { c \in slots :
                    /\ HasStop(availableRoutes[c[1]].stopIds[c[2]])
                    /\ availableRoutes[c[1]].stopIds[c[2]] # originStopId }
        d(c) == haversineDistance(StopById(availableRoutes[c[1]].stopIds[c[2]]).location, destination)
        before(c1, c2) == c1[1] < c2[1] \/ (c1[1] = c2[1] /\ c1[2] <= c2[2])
        best == CHOOSE c \in cand :
                    \A c2 \in cand : d(c) < d(c2) \/ (d(c) = d(c2) /\ before(c, c2))
    IN  IF Len(availableRoutes) = 0 \/ cand = {}
        THEN findNearestStop(destination)
        ELSE StopById(availableRoutes[best[1]].stopIds[best[2]])

\* part_000: the stop nearest to the destination, whatever the origin.
findDestinationStopLegacy(originStopId, destination) ==
    nearestStopFrom(BUS_STOPS, destination)

findDestinationStop(originStopId, destination) ==
    IF dataModule = "part_001"
    THEN findDestinationStopOnRoutes(originStopId, destination)
    ELSE findDestinationStopLegacy(originStopId, destination)

bus_base_per_km == IF dataModule = "part_001" THEN 820 ELSE 822

----------------------------------------------------------------------------
(* engine.ts: construction *)

createAgent(i, home, schedule) ==
    [ id |-> i,
      homeLocation |-> home,
      currentLocation |-> home,
      targetLocation |-> NullLoc,
      nearestStopId |-> NULL,
      destinationStopId |-> NULL,
      state |-> "at_home",
      schedule |-> schedule,
      currentScheduleIndex |-> 0,
      carbonEmitted |-> 0,
      totalTimeSpent |-> 0,
      walkingTime |-> 0,
      waitingTime |-> 0,
      ridingTime |-> 0,
      distanceTraveled |-> 0,
      currentRouteId |-> NULL ]

CeilDiv(a, b) == (a + b - 1) \div b

\* Vehicle i (from 0) of a route: started at floor(i / numVehicles * length).
createVehicle(route, i, numVehicles) ==
    LET startIndex == (i * Len(route.stopIds)) \div numVehicles
    IN  [ routeId |-> route.id,
          currentStopIndex |-> startIndex,
          nextStopIndex |-> Min(startIndex + 1, Len(route.stopIds) - 1),
          passengers |-> <<>>,
          capacity |-> route.vehicleCapacity,
          position |-> StopById(route.stopIds[startIndex + 1]).location,
          progress |-> 0,
          direction |-> 1 ]

RECURSIVE createVehiclesFrom(_, _)
createVehiclesFrom(routes, r) ==
    IF r > Len(routes) THEN <<>>
    ELSE LET route == routes[r]
             numVehicles == Max(MIN_VEHICLES, CeilDiv(FREQUENCY_WINDOW, route.frequency))
             startIndex(i) == (i * Len(route.stopIds)) \div numVehicles
             \* a vehicle is made only if its start stop is found
             kept == SelectSeq([ i \in 1..numVehicles |-> i - 1 ],
                               LAMBDA i : HasStop(route.stopIds[startIndex(i) + 1]))
             mine == [ n \in 1..Len(kept) |-> createVehicle(route, kept[n], numVehicles) ]
         IN  mine \o createVehiclesFrom(routes, r + 1)

createVehicles(routes) == createVehiclesFrom(routes, 1)

----------------------------------------------------------------------------
(* engine.ts: movement helpers *)

\* a + (b - a) * t, with t = num / den
lerp(a, b, num, den) == a + ((b - a) * num) \div den

\* Variant: the nominal step is reported as the distance moved, arrived or not.
moveTowardNominal(current, target, speedKmPerMin) ==
    LET dist == haversineDistance(current, target)
    IN  IF dist <= speedKmPerMin
        THEN [ position |-> target, arrived |-> TRUE, distanceKm |-> speedKmPerMin ]
        ELSE [ position |-> lerp(current, target, speedKmPerMin, dist),
               arrived |-> FALSE, distanceKm |-> speedKmPerMin ]

moveToward(current, target, speedKmPerMin) ==
    LET dist == haversineDistance(current, target)
    IN  IF dist <= speedKmPerMin
        THEN [ position |-> target, arrived |-> TRUE, distanceKm |-> dist ]
        ELSE [ position |-> lerp(current, target, speedKmPerMin, dist),
               arrived |-> FALSE, distanceKm |-> speedKmPerMin ]

----------------------------------------------------------------------------
(* engine.ts: stepSimulation, the vehicle pass *)

HasRoute(routes, id) == \E i \in 1..Len(routes) : routes[i].id = id

RouteById(routes, id) == routes[CHOOSE i \in 1..Len(routes) : routes[i].id = id]

HasAgent(ags, id) == \E i \in 1..Len(ags) : ags[i].id = id

AgentIndex(ags, id) == CHOOSE i \in 1..Len(ags) : ags[i].id = id

\* Variant: past the last stop the vehicle starts again from the first.
NextStopAfterWrapping(cur, direction, len) ==
    [ direction |-> direction, nextStopIndex |-> (cur + direction) % len ]

\* Ping-pong: one further in the current direction, reversed past either end,
\* clamped to the route.
NextStopAfter(cur, direction, len) ==
    LET nextIdx == cur + direction
        turn == nextIdx >= len \/ nextIdx < 0
        dir2 == IF turn THEN 0 - direction ELSE direction
        raw == IF turn THEN cur + dir2 ELSE nextIdx
    IN  [ direction |-> dir2, nextStopIndex |-> Max(0, Min(len - 1, raw)) ]

\* Variant: nobody is taken off the passenger list.
StaysAboardAlways(ags, agentId, arrivedStopId) == TRUE

\* A passenger leaves the vehicle at its destination stop (or if it is no agent).
StaysAboard(ags, agentId, arrivedStopId) ==
    /\ HasAgent(ags, agentId)
    /\ ags[AgentIndex(ags, agentId)].destinationStopId # arrivedStopId

\* Variant: a passenger set down is placed at the stop but keeps state riding.
DeboardStillRiding(ags, passengers, arrivedStop) ==
    [ i \in 1..Len(ags) |->
        IF /\ SeqIncludes(passengers, ags[i].id)
           /\ ags[i].destinationStopId = arrivedStop.id
        THEN [ ags[i] EXCEPT !.currentLocation = arrivedStop.location,
                             !.currentRouteId = NULL ]
        ELSE ags[i] ]

Deboard(ags, passengers, arrivedStop) ==
    [ i \in 1..Len(ags) |->
        IF /\ SeqIncludes(passengers, ags[i].id)
           /\ ags[i].destinationStopId = arrivedStop.id
        THEN [ ags[i] EXCEPT !.state = "walking_to_dest",
                             !.currentLocation = arrivedStop.location,
                             !.currentRouteId = NULL ]
        ELSE ags[i] ]

\* Variant: whoever waits at the stop is taken aboard.
RouteServesAny(route, agent) == TRUE

\* The route serves the agent's destination stop.
RouteServes(route, agent) ==
    /\ agent.destinationStopId # NULL
    /\ SeqIncludes(route.stopIds, agent.destinationStopId)

\* Variant: the capacity is not looked at.
HasRoomAlways(passengers, capacity) == TRUE

HasRoom(passengers, capacity) == Len(passengers) < capacity

\* The boarding loop over the agents found waiting at the stop, in array order.
RECURSIVE BoardLoop(_, _, _, _, _, _)
BoardLoop(waitingAgents, k, passengers, ags, route, capacity) ==
    IF k > Len(waitingAgents) \/ ~HasRoom(passengers, capacity)
    THEN [ passengers |-> passengers, agents |-> ags ]
    ELSE LET i == waitingAgents[k]
         IN  IF RouteServes(route, ags[i])
             THEN BoardLoop(waitingAgents, k + 1, Append(passengers, ags[i].id),
                            [ ags EXCEPT ![i].state = "riding",
                                         ![i].currentRouteId = route.id ],
                            route, capacity)
             ELSE BoardLoop(waitingAgents, k + 1, passengers, ags, route, capacity)

\* agents.filter(...) of the boarding step, as indices in array order; the
\* capacity test reads the passenger list as it is before anyone boards.
RECURSIVE WaitingAt(_, _, _, _)
WaitingAt(ags, i, arrivedStopId, room) ==
    IF i > Len(ags) THEN <<>>
    ELSE (IF /\ ags[i].state = "waiting"
             /\ ags[i].nearestStopId = arrivedStopId
             /\ room
          THEN <<i>> ELSE <<>>) \o WaitingAt(ags, i + 1, arrivedStopId, room)

Board(ags, passengers, arrivedStop, route, capacity) ==
    LET waitingAgents == WaitingAt(ags, 1, arrivedStop.id, HasRoom(passengers, capacity))
    IN  BoardLoop(waitingAgents, 1, passengers, ags, route, capacity)

\* Carbon charged to one passenger for one minute aboard, shared among n.
passengerCO2(n) == (bus_base_per_km * BUS_SPEED_KM_PER_MIN) \div Max(n, 1)

\* Variant: the passengers are charged for the ride but not moved.
RidePassengersLeftBehind(ags, v) ==
    [ i \in 1..Len(ags) |->
        IF SeqIncludes(v.passengers, ags[i].id)
        THEN [ ags[i] EXCEPT !.ridingTime = @ + 1,
                             !.distanceTraveled = @ + BUS_SPEED_KM_PER_MIN,
                             !.carbonEmitted = @ + passengerCO2(Len(v.passengers)) ]
        ELSE ags[i] ]

RidePassengers(ags, v) ==
    [ i \in 1..Len(ags) |->
        IF SeqIncludes(v.passengers, ags[i].id)
        THEN [ ags[i] EXCEPT !.currentLocation = v.position,
                             !.ridingTime = @ + 1,
                             !.distanceTraveled = @ + BUS_SPEED_KM_PER_MIN,
                             !.carbonEmitted = @ + passengerCO2(Len(v.passengers)) ]
        ELSE ags[i] ]

VehiclePosition(v, route) ==
    LET csId == route.stopIds[v.currentStopIndex + 1]
        nsId == route.stopIds[v.nextStopIndex + 1]
        cs == StopById(csId).location
        ns == StopById(nsId).location
        d == haversineDistance(cs, ns)
    IN  IF HasStop(csId) /\ HasStop(nsId)
        THEN (IF d = 0 THEN cs ELSE lerp(cs, ns, Min(v.progress, d), d))
        ELSE v.position

StepVehicle(v, ags, routes) ==
    IF ~HasRoute(routes, v.routeId) THEN [ vehicle |-> v, agents |-> ags ]
    ELSE
    LET route == RouteById(routes, v.routeId)
        currentStopId == route.stopIds[v.currentStopIndex + 1]
        nextStopId == route.stopIds[v.nextStopIndex + 1]
    IN  IF ~HasStop(currentStopId) \/ ~HasStop(nextStopId)
        THEN [ vehicle |-> v, agents |-> ags ]
        ELSE
        LET dist == haversineDistance(StopById(currentStopId).location,
                                      StopById(nextStopId).location)
            arrives == dist = 0 \/ v.progress + BUS_SPEED_KM_PER_MIN >= dist
            nxt == NextStopAfter(v.nextStopIndex, v.direction, Len(route.stopIds))
            arrivedStopId == route.stopIds[v.nextStopIndex + 1]
            arrivedStop == StopById(arrivedStopId)
            off == Deboard(ags, v.passengers, arrivedStop)
            left == SelectSeq(v.passengers,
                              LAMBDA id : StaysAboard(ags, id, arrivedStopId))
            on == Board(off, left, arrivedStop, route, v.capacity)
            v1 == IF ~arrives
                  THEN [ v EXCEPT !.progress = @ + BUS_SPEED_KM_PER_MIN ]
                  ELSE [ v EXCEPT !.currentStopIndex = v.nextStopIndex,
                                  !.progress = 0,
                                  !.direction = nxt.direction,
                                  !.nextStopIndex = nxt.nextStopIndex,
                                  !.passengers = IF HasStop(arrivedStopId)
                                                 THEN on.passengers ELSE @ ]
            ags1 == IF arrives /\ HasStop(arrivedStopId) THEN on.agents ELSE ags
            v2 == [ v1 EXCEPT !.position = VehiclePosition(v1, route) ]
        IN  [ vehicle |-> v2, agents |-> RidePassengers(ags1, v2) ]

RECURSIVE StepVehicles(_, _, _, _)
StepVehicles(i, vs, ags, routes) ==
    IF i > Len(vs) THEN [ vehicles |-> vs, agents |-> ags ]
    ELSE LET r == StepVehicle(vs[i], ags, routes)
         IN  StepVehicles(i + 1, [ vs EXCEPT ![i] = r.vehicle ], r.agents, routes)

----------------------------------------------------------------------------
(* engine.ts: stepSimulation, the agent pass *)

IsIdle(a) == a.state \in {"at_home", "at_destination"}

HasNextTrip(a) == a.currentScheduleIndex < Len(a.schedule)

NextTrip(a) == a.schedule[a.currentScheduleIndex + 1]

\* Variant: the departure minute is not looked at.
DepartureDueAnyMinute(a, minute) == HasNextTrip(a)

DepartureDue(a, minute) ==
    /\ HasNextTrip(a)
    /\ minute >= NextTrip(a).departureMinute

\* Variant: the comparison the wrong way round.
IsDirectWalkInverted(directDist) == directDist > DIRECT_WALK_KM

IsDirectWalk(directDist) == directDist < DIRECT_WALK_KM

Depart(a) ==
    LET entry == NextTrip(a)
        nearestStop == findNearestStop(a.currentLocation)
        destStop == findDestinationStop(nearestStop.id, entry.destination)
        directDist == haversineDistance(a.currentLocation, entry.destination)
    IN  [ a EXCEPT !.targetLocation = entry.destination,
                   !.nearestStopId = nearestStop.id,
                   !.destinationStopId = destStop.id,
                   !.state = IF IsDirectWalk(directDist)
                             THEN "walking_to_dest" ELSE "walking_to_stop",
                   !.currentScheduleIndex = @ + 1 ]

StepIdle(a, minute) == IF DepartureDue(a, minute) THEN Depart(a) ELSE a

StepWalkingToStop(a) ==
    IF a.nearestStopId = NULL THEN [ a EXCEPT !.state = "at_home" ]
    ELSE IF ~HasStop(a.nearestStopId) THEN a
    ELSE LET result == moveToward(a.currentLocation, StopById(a.nearestStopId).location,
                                  WALKING_SPEED_KM_PER_MIN)
         IN  [ a EXCEPT !.currentLocation = result.position,
                        !.walkingTime = @ + 1,
                        !.distanceTraveled = @ + result.distanceKm,
                        !.state = IF result.arrived THEN "waiting" ELSE @ ]

\* Variant: the limit is passed one minute late.
WaitedTooLongLate(waitingTime) == waitingTime > WAIT_LIMIT + 1

WaitedTooLong(waitingTime) == waitingTime > WAIT_LIMIT

\* Variant: an agent that gives up waiting is sent home instead of walking.
StepWaitingGivingUp(a) ==
    LET b == [ a EXCEPT !.waitingTime = @ + 1 ]
    IN  IF b.waitingTime > WAIT_LIMIT /\ b.targetLocation # NullLoc
        THEN [ b EXCEPT !.state = "at_home" ]
        ELSE b

StepWaiting(a) ==
    LET b == [ a EXCEPT !.waitingTime = @ + 1 ]
    IN  IF WaitedTooLong(b.waitingTime) /\ b.targetLocation # NullLoc
        THEN [ b EXCEPT !.state = "walking_to_dest" ]
        ELSE b

\* Variant: the stop ids of the trip are left in place.
ArriveKeepingStops(a) ==
    [ a EXCEPT !.state = "at_destination",
               !.targetLocation = NullLoc ]

\* Variant: the cursor is advanced on arrival as well.
ArriveAdvancingCursor(a) ==
    [ a EXCEPT !.state = "at_destination",
               !.targetLocation = NullLoc,
               !.nearestStopId = NULL,
               !.destinationStopId = NULL,
               !.currentScheduleIndex = @ + 1 ]

Arrive(a) ==
    [ a EXCEPT !.state = "at_destination",
               !.targetLocation = NullLoc,
               !.nearestStopId = NULL,
               !.destinationStopId = NULL ]

StepWalkingToDest(a) ==
    IF a.targetLocation = NullLoc THEN [ a EXCEPT !.state = "at_destination" ]
    ELSE LET result == moveToward(a.currentLocation, a.targetLocation,
                                  WALKING_SPEED_KM_PER_MIN)
             b == [ a EXCEPT !.currentLocation = result.position,
                             !.walkingTime = @ + 1,
                             !.distanceTraveled = @ + result.distanceKm ]
         IN  IF result.arrived THEN Arrive(b) ELSE b

AgentCase(a, minute) ==
    CASE IsIdle(a) -> StepIdle(a, minute)
      [] a.state = "walking_to_stop" -> StepWalkingToStop(a)
      [] a.state = "waiting" -> StepWaiting(a)
      [] a.state = "riding" -> a
      [] a.state = "walking_to_dest" -> StepWalkingToDest(a)

\* Variant: the total counts every simulated minute, travelling or not.
StepAgentCountingEveryTick(a, minute) ==
    [ AgentCase(a, minute) EXCEPT !.totalTimeSpent = @ + 1 ]

StepAgent(a, minute) ==
    LET b == AgentCase(a, minute)
    IN  [ b EXCEPT !.totalTimeSpent = b.walkingTime + b.waitingTime + b.ridingTime ]

\* Reading nearestStop.id throws when findNearestStop returned undefined; the
\* target location of the trip has been assigned by then.
DepartThrows(a, minute) ==
    /\ IsIdle(a)
    /\ DepartureDue(a, minute)
    /\ findNearestStop(a.currentLocation) = undefined

\* The agent loop: the agents are stepped in place, in array order, up to the
\* one at which the step throws.
RECURSIVE StepAgents(_, _, _)
StepAgents(i, ags, minute) ==
    IF i > Len(ags) THEN [ agents |-> ags, threw |-> FALSE ]
    ELSE IF DepartThrows(ags[i], minute)
    THEN [ agents |-> [ ags EXCEPT ![i].targetLocation = NextTrip(ags[i]).destination ],
           threw |-> TRUE ]
    ELSE StepAgents(i + 1, [ ags EXCEPT ![i] = StepAgent(ags[i], minute) ], minute)

stepSimulation(ags, vs, minute, routes) ==
    LET afterVehicles == StepVehicles(1, vs, ags, routes)
        afterAgents == StepAgents(1, afterVehicles.agents, minute)
    IN  [ agents |-> afterAgents.agents,
          vehicles |-> afterVehicles.vehicles,
          threw |-> afterAgents.threw ]

----------------------------------------------------------------------------
(* The parts of the state a specification does not exercise sit idle in it *)

EngineIdle ==
    /\ agents = <<>>
    /\ vehicles = <<>>
    /\ currentMinute = 0
    /\ BUS_STOPS = <<>>
    /\ BUS_ROUTES = <<>>
    /\ dataModule = "part_000"
    /\ waitStreak = <<>>
    /\ prevAgents = <<>>
    /\ stepError = FALSE

FlowIdle ==
    /\ flow = <<>>
    /\ flowLog = <<>>
    /\ flowCleared = FALSE

GraphIdle ==
    /\ graphStops = <<>>
    /\ graphDistance = <<>>
    /\ graphK = 0
    /\ graph = <<>>
    /\ lastQuery = <<>>
    /\ adjacency = <<>>
    /\ graphFingerprint = <<>>
    /\ pathCache = <<>>

RoutesIdle ==
    /\ networkStops = <<>>
    /\ flowEdges = <<>>
    /\ policy = <<>>
    /\ generatedRoutes = <<>>

UnitIdle ==
    /\ scheduled = <<>>
    /\ moved = <<>>

\* useSimulation.ts: the totals of calculateMetrics that the hook reads.
EMPTY_METRICS == [ totalCO2 |-> 0, totalDistance |-> 0 ]

\* A value that may be null: no element, or the one value.
Nothing == << >>

Just(x) == << x >>

NoAnalysis == [ baseline |-> Nothing, proposal |-> Nothing ]

HookIdle ==
    /\ isRunning = FALSE
    /\ isPaused = FALSE
    /\ scenario = "baseline"
    /\ initialAgents = Nothing
    /\ metrics = EMPTY_METRICS
    /\ analysis = NoAnalysis
    /\ timerRef = FALSE
    /\ startPending = FALSE
    /\ generatePending = Nothing
    /\ runCount = 0
    /\ lastCommand = "none"

----------------------------------------------------------------------------
(* The run: construction, then one stepSimulation per simulated minute *)

\* Four stops on the line; s4 is on no route.
StopLayout ==
    << [ id |-> "s1", location |-> 0 ],
       [ id |-> "s2", location |-> 40 ],
       [ id |-> "s3", location |-> 80 ],
       [ id |-> "s4", location |-> 100 ] >>

RouteLayout ==
    << [ id |-> "r1", stopIds |-> << "s1", "s2", "s3" >>,
         frequency |-> 15, vehicleCapacity |-> 1 ] >>

Homes == { 3, 98 }

PoiLocations == { 10, 40, 88 }

OutboundMinutes == { 1, 3 }

ReturnMinutes == { 26 }

AgentIds == << "agent_0", "agent_1" >>

\* The schedules of the run: none, one outbound trip, or an outbound trip and
\* the return home, sorted by departure minute.
Schedules(home) ==
    { <<>> }
    \cup { << [ departureMinute |-> m, destination |-> p ] >> :
             m \in OutboundMinutes, p \in PoiLocations }
    \cup { << [ departureMinute |-> m, destination |-> p ],
              [ departureMinute |-> r, destination |-> home ] >> :
             m \in OutboundMinutes, p \in PoiLocations, r \in ReturnMinutes }

InitialAgent(i) ==
    UNION { { createAgent(AgentIds[i], home, schedule) : schedule \in Schedules(home) } :
            home \in Homes }

Init ==
    /\ BUS_STOPS = StopLayout
    /\ BUS_ROUTES = RouteLayout
    /\ dataModule \in { "part_000", "part_001" }
    /\ agents \in { << a0, a1 >> : a0 \in InitialAgent(1), a1 \in InitialAgent(2) }
    /\ vehicles = createVehicles(BUS_ROUTES)
    /\ currentMinute = 0
    /\ waitStreak = [ i \in 1..Len(agents) |-> 0 ]
    /\ prevAgents = agents
    /\ stepError = FALSE
    /\ FlowIdle
    /\ GraphIdle
    /\ RoutesIdle
    /\ HookIdle
    /\ UnitIdle

Tick ==
    /\ currentMinute < MaxMinute
    /\ ~stepError
    /\ LET result == stepSimulation(agents, vehicles, currentMinute, BUS_ROUTES)
       IN  /\ agents' = result.agents
           /\ vehicles' = result.vehicles
           /\ waitStreak' = [ i \in 1..Len(agents) |->
                                IF agents[i].state = "waiting" /\ result.agents[i].state = "waiting"
                                THEN waitStreak[i] + 1 ELSE 0 ]
           /\ stepError' = result.threw
    /\ prevAgents' = agents
    /\ currentMinute' = currentMinute + 1
    /\ UNCHANGED << BUS_STOPS, BUS_ROUTES, dataModule, flowVars, graphVars, routeVars, hookVars, unitVars >>

Next == Tick

Spec == Init /\ [][Next]_vars

----------------------------------------------------------------------------
(* Properties of stepSimulation *)

AgentIx == 1..Len(agents)

\* An agent that is idle before the tick with its next trip due at this minute.
Departing(i) ==
    /\ agents[i].state \in {"at_home", "at_destination"}
    /\ agents[i].currentScheduleIndex < Len(agents[i].schedule)
    /\ currentMinute >= agents[i].schedule[agents[i].currentScheduleIndex + 1].departureMinute

DepartingTo(i) == agents[i].schedule[agents[i].currentScheduleIndex + 1].destination

\* C1: an idle agent whose trip is due and whose destination is less than
\* 0.3 km (18 units) away goes to walking_to_dest in that tick, and a walking_to_dest
\* agent goes nowhere but on to at_destination: no walking_to_stop, waiting or
\* riding before it arrives.
C1_DirectWalk ==
    [][ \A i \in AgentIx :
          /\ ( /\ Departing(i)
               /\ haversineDistance(agents[i].currentLocation, DepartingTo(i)) < 18 )
             => agents'[i].state = "walking_to_dest"
          /\ agents[i].state = "walking_to_dest"
             => agents'[i].state \in {"walking_to_dest", "at_destination"} ]_vars

\* An agent has just left home on foot for a destination less than 0.3 km away.
C1_Witness ==
    \E i \in AgentIx :
        /\ prevAgents[i].state = "at_home"
        /\ agents[i].state = "walking_to_dest"
        /\ agents[i].currentLocation = agents[i].homeLocation
        /\ haversineDistance(agents[i].currentLocation, agents[i].targetLocation) < 18

\* C2: a tick leaves an idle agent whose next trip departs later than the
\* current minute exactly as it was.
C2_DwellUnchanged ==
    [][ \A i \in AgentIx :
          ( /\ agents[i].state \in {"at_home", "at_destination"}
            /\ agents[i].currentScheduleIndex < Len(agents[i].schedule)
            /\ agents[i].schedule[agents[i].currentScheduleIndex + 1].departureMinute
                 > currentMinute )
          => agents'[i] = agents[i] ]_vars

\* An agent dwells at its destination between two trips, a tick having passed.
C2_Witness ==
    \E i \in AgentIx :
        /\ currentMinute > 0
        /\ prevAgents[i] = agents[i]
        /\ agents[i].state = "at_destination"
        /\ agents[i].currentScheduleIndex < Len(agents[i].schedule)
        /\ agents[i].schedule[agents[i].currentScheduleIndex + 1].departureMinute
             > currentMinute

\* C3: an agent in walking_to_dest that is within one walking step of its
\* target is, after the tick, at_destination at that target with
\* targetLocation, nearestStopId and destinationStopId null; and whenever an
\* agent enters at_destination those three fields are null.
C3_ArrivalClears ==
    [][ \A i \in AgentIx :
          /\ ( /\ agents[i].state = "walking_to_dest"
               /\ agents[i].targetLocation # NullLoc
               /\ haversineDistance(agents[i].currentLocation, agents[i].targetLocation) <= 5 )
             => /\ agents'[i].state = "at_destination"
                /\ agents'[i].currentLocation = agents[i].targetLocation
          /\ ( agents[i].state # "at_destination" /\ agents'[i].state = "at_destination" )
             => /\ agents'[i].targetLocation = NullLoc
                /\ agents'[i].nearestStopId = NULL
                /\ agents'[i].destinationStopId = NULL ]_vars

\* An agent has just walked the last step to its target.
C3_Witness ==
    \E i \in AgentIx :
        /\ prevAgents[i].state = "walking_to_dest"
        /\ agents[i].state = "at_destination"
        /\ agents[i].currentLocation = prevAgents[i].targetLocation
        /\ agents[i].currentLocation # prevAgents[i].currentLocation

\* C4 as claimed: the cursor advances by one in the tick of arrival and in no
\* other tick, so that a travelling agent's cursor indexes the trip in progress.
C4_CursorAdvancesOnArrival ==
    [][ \A i \in AgentIx :
          /\ agents'[i].currentScheduleIndex =
                IF agents[i].state # "at_destination" /\ agents'[i].state = "at_destination"
                THEN agents[i].currentScheduleIndex + 1
                ELSE agents[i].currentScheduleIndex
          /\ agents'[i].state \notin {"at_home", "at_destination"}
             => /\ agents'[i].currentScheduleIndex < Len(agents'[i].schedule)
                /\ agents'[i].schedule[agents'[i].currentScheduleIndex + 1].destination
                     = agents'[i].targetLocation ]_vars

\* C4 amended: the cursor advances by one in the tick in which the agent
\* leaves an idle state for a trip and in no other tick (arrival leaves it
\* alone); a travelling agent's cursor is one past the trip in progress.
C4_CursorAdvancesOnDeparture ==
    [][ \A i \in AgentIx :
          /\ agents'[i].currentScheduleIndex =
                IF /\ agents[i].state \in {"at_home", "at_destination"}
                   /\ agents'[i].state \notin {"at_home", "at_destination"}
                THEN agents[i].currentScheduleIndex + 1
                ELSE agents[i].currentScheduleIndex
          /\ agents'[i].state \notin {"at_home", "at_destination"}
             => /\ agents'[i].currentScheduleIndex >= 1
                /\ agents'[i].currentScheduleIndex <= Len(agents'[i].schedule)
                /\ agents'[i].schedule[agents'[i].currentScheduleIndex].destination
                     = agents'[i].targetLocation ]_vars

\* An agent has just arrived from its first trip, the cursor unchanged by the
\* arrival and already at the second trip.
C4_Witness ==
    \E i \in AgentIx :
        /\ prevAgents[i].state = "walking_to_dest"
        /\ agents[i].state = "at_destination"
        /\ prevAgents[i].currentScheduleIndex = 1
        /\ agents[i].currentScheduleIndex = 1
        /\ Len(agents[i].schedule) = 2
        /\ agents[i].currentLocation = agents[i].schedule[1].destination

ClaimedEdges ==
    { <<"at_home", "walking_to_stop">>, <<"at_home", "walking_to_dest">>,
      <<"walking_to_stop", "waiting">>,
      <<"waiting", "riding">>, <<"waiting", "walking_to_dest">>,
      <<"riding", "walking_to_dest">>,
      <<"walking_to_dest", "at_destination">>,
      <<"at_destination", "walking_to_stop">>, <<"at_destination", "walking_to_dest">> }

\* C5 as claimed: every agent starts at_home, and in a tick an agent's state
\* stays the same or follows one of the nine listed edges.
C5_ClaimedEdgesOnly ==
    /\ \A i \in AgentIx : agents[i].state = "at_home"
    /\ [][ \A i \in AgentIx :
             \/ agents'[i].state = agents[i].state
             \/ <<agents[i].state, agents'[i].state>> \in ClaimedEdges ]_vars

\* C5 amended: as claimed, with the edge riding -> at_destination added (a
\* passenger set down within one walking step of its target arrives in the
\* tick in which it leaves the vehicle).
C5_EdgesWithSetDownArrival ==
    /\ \A i \in AgentIx : agents[i].state = "at_home"
    /\ [][ \A i \in AgentIx :
             \/ agents'[i].state = agents[i].state
             \/ <<agents[i].state, agents'[i].state>>
                  \in ClaimedEdges \cup { <<"riding", "at_destination">> } ]_vars

\* A passenger has been set down and has arrived in the same tick.
C5_Witness ==
    \E i \in AgentIx :
        /\ prevAgents[i].state = "riding"
        /\ agents[i].state = "at_destination"

\* C6: a tick leaves an idle agent with no trip left in its schedule exactly
\* as it was (state, location, counters and all), so it stays idle for good.
C6_FinishedStaysIdle ==
    [][ \A i \in AgentIx :
          ( /\ agents[i].state \in {"at_home", "at_destination"}
            /\ agents[i].currentScheduleIndex >= Len(agents[i].schedule) )
          => agents'[i] = agents[i] ]_vars

\* An agent that has made all the trips of its schedule rests through a tick.
C6_Witness ==
    \E i \in AgentIx :
        /\ Len(agents[i].schedule) > 0
        /\ agents[i].currentScheduleIndex = Len(agents[i].schedule)
        /\ agents[i].state = "at_destination"
        /\ prevAgents[i] = agents[i]

\* C7: no agent spends more than 15 consecutive ticks in waiting, and an agent
\* that has spent 15 and does not board in the next tick switches to
\* walking_to_dest in that tick.
C7_WaitTimeout ==
    [][ \A i \in AgentIx :
          /\ waitStreak'[i] <= 15
          /\ ( /\ agents[i].state = "waiting"
               /\ waitStreak[i] >= 15
               /\ agents'[i].state # "riding" )
             => agents'[i].state = "walking_to_dest" ]_vars

\* An agent has given up after 15 ticks of waiting and a 16th without a vehicle.
C7_Witness ==
    \E i \in AgentIx :
        /\ prevAgents[i].state = "waiting"
        /\ prevAgents[i].waitingTime = 15
        /\ agents[i].state = "walking_to_dest"
        /\ agents[i].waitingTime = 16
        /\ agents[i].ridingTime = 0

\* The stops that can be reached from a set of stops over the routes.
RECURSIVE RouteClosure(_, _)
RouteClosure(S, n) ==
    IF n = 0 THEN S
    ELSE RouteClosure(
           S \cup { BUS_ROUTES[r].stopIds[k] :
                      <<r, k>> \in { <<r, k>> \in (1..Len(BUS_ROUTES)) \X (1..Len(BUS_STOPS)) :
                                        /\ k <= Len(BUS_ROUTES[r].stopIds)
                                        /\ \E s \in S : SeqIncludes(BUS_ROUTES[r].stopIds, s) } },
           n - 1)

TransitPathExists(fromStopId, toStopId) ==
    toStopId \in RouteClosure({fromStopId}, Len(BUS_ROUTES))

\* C8 as claimed: an idle agent whose trip is due, with no transit path from
\* the stop nearest to it to the stop nearest to its destination, goes to
\* walking_to_dest in that tick.
C8_NoPathWalksDirectly ==
    [][ \A i \in AgentIx :
          ( /\ Departing(i)
            /\ ~TransitPathExists(nearestStopFrom(BUS_STOPS, agents[i].currentLocation).id,
                                  nearestStopFrom(BUS_STOPS, DepartingTo(i)).id) )
          => agents'[i].state = "walking_to_dest" ]_vars

----------------------------------------------------------------------------
(* Flow accumulator (record, snapshot, clear) and its reader in useSimulation.ts *)

\* Variant: minutes past the end of the day land in the last bucket.
HourBucketClamped(minute) == Min(23, minute \div 60)

HourBucket(minute) == (minute % 1440) \div 60

EmptyFlowEdge == [ count |-> 0, hourly |-> [ h \in 0..23 |-> 0 ] ]

record(f, from, to, minute) ==
    LET key == << from, to >>
        e == IF key \in DOMAIN f THEN f[key] ELSE EmptyFlowEdge
        e2 == [ count |-> e.count + 1,
                hourly |-> [ e.hourly EXCEPT ![HourBucket(minute)] = @ + 1 ] ]
    IN  [ k \in (DOMAIN f) \cup { key } |-> IF k = key THEN e2 ELSE f[k] ]

snapshot(f) ==
    { [ from |-> k[1], to |-> k[2], count |-> f[k].count, hourly |-> f[k].hourly ] :
        k \in DOMAIN f }

clearFlow == << >>

\* The sum of f[x] over the x in S.
RECURSIVE SumOver(_, _)
SumOver(S, f) ==
    IF S = {} THEN 0
    ELSE LET x == CHOOSE y \in S : TRUE
         IN  f[x] + SumOver(S \ { x }, f)

\* useSimulation.ts: totals over the snapshot, and the first hour of maximal flow.
computeFlowSummary(edges) ==
    LET hourly == [ h \in 0..23 |-> SumOver(edges, [ e \in edges |-> e.hourly[h] ]) ]
        peakHour == CHOOSE h \in 0..23 :
                       /\ \A g \in 0..23 : hourly[g] <= hourly[h]
                       /\ \A g \in 0..(h - 1) : hourly[g] < hourly[h]
    IN  [ edgesCount |-> Cardinality(edges),
          totalTraversals |-> SumOver(edges, [ e \in edges |-> e.count ]),
          peakHour |-> peakHour ]

FlowStops == { "A", "B" }

\* Hour 8, hour 9, the last minute of the day, and hour 8 of the next day.
FlowMinutes == { 500, 545, 1439, 1940 }

InitFlow ==
    /\ EngineIdle
    /\ GraphIdle
    /\ RoutesIdle
    /\ HookIdle
    /\ UnitIdle
    /\ flow = clearFlow
    /\ flowLog = << >>
    /\ flowCleared = FALSE

RecordFlow ==
    /\ Len(flowLog) < MaxFlowRecords
    /\ \E from \in FlowStops, to \in FlowStops, minute \in FlowMinutes :
         /\ from # to
         /\ flow' = record(flow, from, to, minute)
         /\ flowLog' = Append(flowLog, [ from |-> from, to |-> to, minute |-> minute ])
    /\ UNCHANGED << flowCleared, engineVars, graphVars, routeVars, hookVars, unitVars >>

ClearFlow ==
    /\ flow' = clearFlow
    /\ flowLog' = << >>
    /\ flowCleared' = TRUE
    /\ UNCHANGED << engineVars, graphVars, routeVars, hookVars, unitVars >>

NextFlow == RecordFlow \/ ClearFlow

SpecFlow == InitFlow /\ [][NextFlow]_vars

\* The records since the last clear of one ordered pair, as positions in the log.
Recorded(from, to) ==
    { k \in 1..Len(flowLog) : flowLog[k].from = from /\ flowLog[k].to = to }

\* C9: the snapshot holds, for each ordered pair recorded since the last
\* clear, one entry whose count is the number of those records and whose
\* hourly[h] is the number of them with floor((minute mod 1440) / 60) = h (so
\* the buckets sum to the count and the counts to the number of records); it
\* holds nothing for a pair never recorded, and nothing at all after a clear.
C9_SnapshotCountsRecords ==
    /\ \A from \in FlowStops, to \in FlowStops :
         LET recs == Recorded(from, to)
             entries == { e \in snapshot(flow) : e.from = from /\ e.to = to }
         IN  IF recs = {} THEN entries = {}
             ELSE /\ Cardinality(entries) = 1
                  /\ \A e \in entries :
                       /\ e.count = Cardinality(recs)
                       /\ \A h \in 0..23 :
                            e.hourly[h] =
                              Cardinality({ k \in recs :
                                ((flowLog[k].minute - 1440 * (flowLog[k].minute \div 1440)) \div 60) = h })
                       /\ SumOver(0..23, e.hourly) = e.count
    /\ computeFlowSummary(snapshot(flow)).totalTraversals = Len(flowLog)
    /\ flowLog = << >> => snapshot(flow) = {}

\* After a clear: (A,B) three times in hour 8 (once on the next day) and twice
\* in hour 9 gives count 5, hourly[8] = 3, hourly[9] = 2 and no other edge.
C9_Witness ==
    /\ flowCleared
    /\ Len(flowLog) = 5
    /\ \E k \in 1..5 : flowLog[k].minute = 1940
    /\ snapshot(flow) =
         { [ from |-> "A", to |-> "B", count |-> 5,
             hourly |-> [ h \in 0..23 |-> IF h = 8 THEN 3 ELSE IF h = 9 THEN 2 ELSE 0 ] ] }

----------------------------------------------------------------------------
(* Transit graph: k-nearest-neighbour builder and shortest-path query *)

\* Variant: every edge counts one, so the path with the fewest stops wins.
EdgeWeightHops(a, b) == 1

\* The weight of the edge between two stops: their distance.
EdgeWeight(a, b) == graphDistance[<< a, b >>]

\* The positions (in the stop list) of the stops other than stops[i], nearest
\* first, ties in input order.
RECURSIVE NearestFirst(_, _, _)
NearestFirst(stops, i, left) ==
    IF left = {} THEN << >>
    ELSE LET j == CHOOSE x \in left :
                    \A y \in left :
                       \/ EdgeWeight(stops[i], stops[x]) < EdgeWeight(stops[i], stops[y])
                       \/ /\ EdgeWeight(stops[i], stops[x]) = EdgeWeight(stops[i], stops[y])
                          /\ x <= y
         IN  << j >> \o NearestFirst(stops, i, left \ { j })

\* The k nearest other stops of stops[i].
Nearest(stops, i, k) ==
    LET order == NearestFirst(stops, i, (1..Len(stops)) \ { i })
    IN  { stops[order[n]] : n \in 1..Min(k, Len(order)) }

\* One end of an edge: b is entered in the list of a unless it is there already.
addHalf(adj, a, b) ==
    [ adj EXCEPT ![a] = IF \E i \in 1..Len(@) : @[i].to = b
                        THEN @
                        ELSE Append(@, [ to |-> b, w |-> EdgeWeight(a, b) ]) ]

\* Variant: the edge is entered at the near end only.
addEdgeOneWay(adj, a, b) == addHalf(adj, a, b)

\* Variant: the edge is entered at both ends without looking for it first.
addEdgeUnchecked(adj, a, b) ==
    [ adj EXCEPT ![a] = Append(@, [ to |-> b, w |-> EdgeWeight(a, b) ]),
                 ![b] = Append(@, [ to |-> a, w |-> EdgeWeight(b, a) ]) ]

\* Edges are added symmetrically, once.
addEdge(adj, a, b) == addHalf(addHalf(adj, a, b), b, a)

\* stops[i] is linked with each of the stops at the positions in rest.
RECURSIVE linkNearest(_, _, _, _)
linkNearest(adj, stops, i, rest) ==
    IF rest = << >> THEN adj
    ELSE linkNearest(addEdge(adj, stops[i], stops[Head(rest)]), stops, i, Tail(rest))

RECURSIVE linkStops(_, _, _, _)
linkStops(adj, stops, k, i) ==
    IF i > Len(stops) THEN adj
    ELSE LET order == NearestFirst(stops, i, (1..Len(stops)) \ { i })
         IN  linkStops(linkNearest(adj, stops, i, SubSeq(order, 1, Min(k, Len(order)))),
                       stops, k, i + 1)

\* The adjacency lists: every stop has an entry; each stop is linked with its
\* k nearest other stops.
buildAdjacency(stops, k) ==
    linkStops([ a \in { stops[i] : i \in 1..Len(stops) } |-> << >> ], stops, k, 1)

\* The neighbours of each stop.
NeighboursOf(adj) ==
    [ a \in DOMAIN adj |-> { adj[a][i].to : i \in 1..Len(adj[a]) } ]

buildGraph(stops, k) == NeighboursOf(buildAdjacency(stops, k))

Unreached == 0 - 1

\* Dijkstra's loop: settle the open stop of least distance, stop when it is
\* the destination, relax its edges.
RECURSIVE dijkstra(_, _, _, _, _)
dijkstra(g, dest, distTo, prev, settled) ==
    LET open == { n \in DOMAIN g : n \notin settled /\ distTo[n] # Unreached }
    IN  IF open = {} THEN prev
        ELSE LET u == CHOOSE n \in open : \A m \in open : distTo[n] <= distTo[m]
                 better(v) == /\ v \in g[u]
                              /\ v \notin settled
                              /\ ( distTo[v] = Unreached
                                   \/ distTo[u] + EdgeWeight(u, v) < distTo[v] )
             IN  IF u = dest THEN prev
                 ELSE dijkstra(g, dest,
                        [ v \in DOMAIN g |-> IF better(v) THEN distTo[u] + EdgeWeight(u, v)
                                             ELSE distTo[v] ],
                        [ v \in DOMAIN g |-> IF better(v) THEN u ELSE prev[v] ],
                        settled \cup { u })

NoPath == << >>

RECURSIVE pathBack(_, _, _)
pathBack(prev, origin, n) ==
    IF n = origin THEN << origin >>
    ELSE IF prev[n] = NULL THEN NoPath
    ELSE LET head == pathBack(prev, origin, prev[n])
         IN  IF head = NoPath THEN NoPath ELSE Append(head, n)

shortestPath(g, origin, dest) ==
    IF origin \notin DOMAIN g \/ dest \notin DOMAIN g THEN NoPath
    ELSE IF origin = dest THEN << origin >>
    ELSE pathBack(dijkstra(g, dest,
                           [ v \in DOMAIN g |-> IF v = origin THEN 0 ELSE Unreached ],
                           [ v \in DOMAIN g |-> NULL ],
                           {}),
                  origin, dest)

StopLists == { << "A", "B", "C" >>, << "A", "B", "C", "D" >> }

Weights == { 1, 2, 3 }

NeighbourCounts == { 1, 2 }

StopsOf(stops) == { stops[i] : i \in 1..Len(stops) }

\* The symmetric distances over a stop list: a weight for each pair of stops.
Distances(stops) ==
    LET pairs == { p \in (1..Len(stops)) \X (1..Len(stops)) : p[1] < p[2] }
        at(w, i, j) == IF i = j THEN 0 ELSE IF i < j THEN w[<< i, j >>] ELSE w[<< j, i >>]
    IN  { [ e \in StopsOf(stops) \X StopsOf(stops) |->
              at(w, CHOOSE i \in 1..Len(stops) : stops[i] = e[1],
                    CHOOSE j \in 1..Len(stops) : stops[j] = e[2]) ] :
          w \in [ pairs -> Weights ] }

InitGraph ==
    /\ EngineIdle
    /\ FlowIdle
    /\ RoutesIdle
    /\ HookIdle
    /\ UnitIdle
    /\ graphStops \in StopLists
    /\ graphDistance \in Distances(graphStops)
    /\ graphK \in NeighbourCounts
    /\ adjacency = buildAdjacency(graphStops, graphK)
    /\ graph = NeighboursOf(adjacency)
    /\ lastQuery = << >>
    /\ graphFingerprint = << >>
    /\ pathCache = << >>

Query ==
    /\ \E origin \in StopsOf(graphStops), dest \in StopsOf(graphStops) :
         lastQuery' = [ origin |-> origin, dest |-> dest,
                        path |-> shortestPath(graph, origin, dest) ]
    /\ UNCHANGED << graphStops, graphDistance, graphK, graph, adjacency,
                    graphFingerprint, pathCache, engineVars, flowVars, routeVars, hookVars, unitVars >>

NextGraph == Query

SpecGraph == InitGraph /\ [][NextGraph]_vars

\* The least total distance from the origin to each stop over at most n
\* further edges of the graph (Unreached where there is no such chain).
RECURSIVE LeastCost(_, _)
LeastCost(cost, n) ==
    IF n = 0 THEN cost
    ELSE LeastCost(
           [ v \in DOMAIN graph |->
               LET via == { cost[u] + graphDistance[<< u, v >>] :
                              u \in { x \in graph[v] : cost[x] # Unreached } }
                   all == via \cup (IF cost[v] = Unreached THEN {} ELSE { cost[v] })
               IN  IF all = {} THEN Unreached
                   ELSE CHOOSE c \in all : \A c2 \in all : c <= c2 ],
           n - 1)

LeastCostFrom(origin) ==
    LeastCost([ v \in DOMAIN graph |-> IF v = origin THEN 0 ELSE Unreached ],
              Cardinality(DOMAIN graph))

PathCost(path) ==
    SumOver(1..(Len(path) - 1),
            [ i \in 1..(Len(path) - 1) |-> graphDistance[<< path[i], path[i + 1] >>] ])

\* C10: for two stops joined by a chain of graph edges the query returns a
\* path from the origin to the destination along graph edges whose total
\* distance is the least possible; and with AB = 1, BC = 1, AC = 3 and k = 2
\* the query from A to C returns A, B, C.
C10_ShortestPath ==
    lastQuery # << >> =>
        LET path == lastQuery.path
            least == LeastCostFrom(lastQuery.origin)[lastQuery.dest]
        IN  /\ least # Unreached =>
                /\ path # NoPath
                /\ path[1] = lastQuery.origin
                /\ path[Len(path)] = lastQuery.dest
                /\ \A i \in 1..(Len(path) - 1) : path[i + 1] \in graph[path[i]]
                /\ PathCost(path) = least
            /\ ( /\ graphStops = << "A", "B", "C" >>
                 /\ graphK = 2
                 /\ graphDistance[<< "A", "B" >>] = 1
                 /\ graphDistance[<< "B", "C" >>] = 1
                 /\ graphDistance[<< "A", "C" >>] = 3
                 /\ lastQuery.origin = "A"
                 /\ lastQuery.dest = "C" )
               => path = << "A", "B", "C" >>

\* The query from A to C over AB = 1, BC = 1, AC = 3 with k = 2 has been made
\* and has returned the path through B.
C10_Witness ==
    /\ graphStops = << "A", "B", "C" >>
    /\ graphK = 2
    /\ graphDistance[<< "A", "B" >>] = 1
    /\ graphDistance[<< "B", "C" >>] = 1
    /\ graphDistance[<< "A", "C" >>] = 3
    /\ lastQuery # << >>
    /\ lastQuery.origin = "A"
    /\ lastQuery.dest = "C"
    /\ lastQuery.path = << "A", "B", "C" >>

----------------------------------------------------------------------------
(* Properties of the graph builder *)

StopIx == 1..Len(graphStops)

\* stops[j] is one of the graphK stops nearest to stops[i] (ties by position).
AmongNearest(i, j) ==
    /\ j # i
    /\ Cardinality({ c \in StopIx \ { i } :
                       \/ graphDistance[<< graphStops[i], graphStops[c] >>]
                            < graphDistance[<< graphStops[i], graphStops[j] >>]
                       \/ /\ graphDistance[<< graphStops[i], graphStops[c] >>]
                               = graphDistance[<< graphStops[i], graphStops[j] >>]
                          /\ c < j }) < graphK

NoSelfNoRepeat ==
    \A a \in DOMAIN adjacency :
        /\ \A n \in 1..Len(adjacency[a]) : adjacency[a][n].to # a
        /\ \A n, m \in 1..Len(adjacency[a]) :
              adjacency[a][n].to = adjacency[a][m].to => n = m

\* C12 as claimed: the adjacency has an entry for every stop, every stop has
\* at most k neighbours, no stop is its own neighbour and no neighbour is
\* listed twice.
C12_AtMostKNeighbours ==
    Len(graphStops) >= 2 =>
        /\ DOMAIN adjacency = StopsOf(graphStops)
        /\ \A a \in DOMAIN adjacency : Len(adjacency[a]) <= graphK
        /\ NoSelfNoRepeat

\* C12 amended: the adjacency has an entry for every stop; the neighbours of a
\* stop are the stops among its k nearest together with the stops that count
\* it among their k nearest (at least min(k, n - 1) of them and at most n - 1,
\* possibly more than k); no stop is its own neighbour and no neighbour is
\* listed twice.
C12_NearestAndTheirInverse ==
    Len(graphStops) >= 2 =>
        /\ DOMAIN adjacency = StopsOf(graphStops)
        /\ \A i, j \in StopIx :
              ( \E n \in 1..Len(adjacency[graphStops[i]]) :
                    adjacency[graphStops[i]][n].to = graphStops[j] )
              <=> ( AmongNearest(i, j) \/ AmongNearest(j, i) )
        /\ \A a \in DOMAIN adjacency :
              /\ Len(adjacency[a]) >= Min(graphK, Len(graphStops) - 1)
              /\ Len(adjacency[a]) <= Len(graphStops) - 1
        /\ NoSelfNoRepeat

\* A graph has been built in which a stop has more than k neighbours.
C12_Witness ==
    /\ Len(graphStops) >= 2
    /\ \E a \in DOMAIN adjacency : Len(adjacency[a]) > graphK

\* C13: whenever b is listed as a neighbour of a with weight w, a is listed as
\* a neighbour of b with the same weight w (the distance between the two).
C13_Undirected ==
    \A a \in DOMAIN adjacency :
        \A n \in 1..Len(adjacency[a]) :
            LET b == adjacency[a][n].to
                w == adjacency[a][n].w
            IN  /\ b \in DOMAIN adjacency
                /\ \E m \in 1..Len(adjacency[b]) :
                      /\ adjacency[b][m].to = a
                      /\ adjacency[b][m].w = w
                /\ w = graphDistance[<< a, b >>]

\* A graph has been built in which a stop lists a neighbour that is not among
\* its own k nearest: the edge is there for the other end's sake.
C13_Witness ==
    \E i, j \in StopIx :
        /\ ~AmongNearest(i, j)
        /\ AmongNearest(j, i)
        /\ \E n \in 1..Len(adjacency[graphStops[i]]) :
              adjacency[graphStops[i]][n].to = graphStops[j]
        /\ \E m \in 1..Len(adjacency[graphStops[j]]) :
              adjacency[graphStops[j]][m].to = graphStops[i]

----------------------------------------------------------------------------
(* Graph cache: the graph and the memoized paths, rebuilt when the fingerprint
   of the stop set changes *)

\* The fingerprint of a stop set: its size and two sampled identifiers (the
\* first and the last).
fingerprint(stops) ==
    IF Len(stops) = 0 THEN << 0, NULL, NULL >>
    ELSE << Len(stops), stops[1], stops[Len(stops)] >>

\* The graph is stale when the fingerprint of the stop set is not the one it
\* was built for.
needsRebuild(stops) == fingerprint(stops) # graphFingerprint

CacheStops == { "A", "B", "C", "D" }

\* The stop sets of the run: A, B, C and A, D, C agree in size, first and last.
CacheStopLists ==
    { << "A", "B", "C" >>, << "A", "D", "C" >>, << "C", "B", "A" >>, << "A", "C" >> }

\* The stops the queries of the run start from.
CacheOrigins == { "A", "C" }

CacheWeight(a, b) ==
    IF a = b THEN 0
    ELSE IF { a, b } = { "A", "C" } THEN 3
    ELSE IF { a, b } = { "B", "D" } THEN 2
    ELSE 1

CacheDistances == [ e \in CacheStops \X CacheStops |-> CacheWeight(e[1], e[2]) ]

InitCache ==
    /\ EngineIdle
    /\ FlowIdle
    /\ RoutesIdle
    /\ HookIdle
    /\ UnitIdle
    /\ graphStops \in CacheStopLists
    /\ graphDistance = CacheDistances
    /\ graphK \in NeighbourCounts
    /\ adjacency = << >>
    /\ graph = << >>
    /\ graphFingerprint = << >>
    /\ pathCache = << >>
    /\ lastQuery = << >>

\* The stop set is replaced by another.
SetStops ==
    /\ \E stops \in CacheStopLists :
         /\ stops # graphStops
         /\ graphStops' = stops
    /\ lastQuery' = << >>
    /\ UNCHANGED << graphDistance, graphK, graph, adjacency, graphFingerprint, pathCache,
                    engineVars, flowVars, routeVars, hookVars, unitVars >>

\* A shortest-path query through the cache: the graph is rebuilt and the
\* memoized paths dropped when the fingerprint has changed; the answer is the
\* memoized path of the pair when there is one, else it is searched for and
\* memoized.
CachedQuery ==
    \E origin \in StopsOf(graphStops) \cap CacheOrigins, dest \in StopsOf(graphStops) :
        /\ adjacency' = IF needsRebuild(graphStops)
                        THEN buildAdjacency(graphStops, graphK) ELSE adjacency
        /\ graph' = NeighboursOf(adjacency')
        /\ graphFingerprint' = fingerprint(graphStops)
        /\ LET kept == IF needsRebuild(graphStops) THEN << >> ELSE pathCache
               key == << origin, dest >>
           IN  /\ lastQuery' = [ origin |-> origin, dest |-> dest,
                                 path |-> IF key \in DOMAIN kept THEN kept[key]
                                          ELSE shortestPath(graph', origin, dest) ]
               /\ pathCache' = [ q \in (DOMAIN kept) \cup { key } |->
                                   IF q \in DOMAIN kept THEN kept[q] ELSE lastQuery'.path ]
        /\ UNCHANGED << graphStops, graphDistance, graphK, engineVars, flowVars, routeVars, hookVars, unitVars >>

NextCache == SetStops \/ CachedQuery

SpecCache == InitCache /\ [][NextCache]_vars

\* C11: the path returned by a query holds stops of the current stop set only
\* and is the path a fresh search on the graph of the current stop set returns.
C11_NoStalePath ==
    lastQuery # << >> =>
        /\ \A n \in 1..Len(lastQuery.path) : lastQuery.path[n] \in StopsOf(graphStops)
        /\ lastQuery.path = shortestPath(buildGraph(graphStops, graphK),
                                         lastQuery.origin, lastQuery.dest)

----------------------------------------------------------------------------
(* Route generation from flow *)

\* Variant: the traversal count is not looked at.
qualifiesAnyCount(e, stops, pol) ==
    /\ \E n \in 1..Len(stops) : stops[n] = e.from
    /\ \E n \in 1..Len(stops) : stops[n] = e.to

\* An edge qualifies with a count of at least the minimum and both ends valid stops.
qualifies(e, stops, pol) ==
    /\ e.count >= pol.minCount
    /\ \E n \in 1..Len(stops) : stops[n] = e.from
    /\ \E n \in 1..Len(stops) : stops[n] = e.to

\* Descending by count, ties in the original order.
sortByCount(edges) ==
    LET before(i, j) == \/ edges[i].count > edges[j].count
                        \/ edges[i].count = edges[j].count /\ i < j
        rank(i) == Cardinality({ j \in 1..Len(edges) : before(j, i) })
    IN  [ r \in 1..Len(edges) |-> edges[CHOOSE i \in 1..Len(edges) : rank(i) = r - 1] ]

\* Step 1: the qualifying edges, sorted, cut to the top N.
topEdgesOf(edges, stops, pol) ==
    LET sorted == sortByCount(SelectSeq(edges, LAMBDA e : qualifies(e, stops, pol)))
    IN  SubSeq(sorted, 1, Min(pol.topEdges, Len(sorted)))

\* Variant: a consumed edge is not marked.
consumeNothing(used, i) == used

\* Step 4: a consumed edge is marked used (edges are known by their position
\* in the top-N list).
consume(used, i) == used \cup { i }

\* Variant: a route is never full.
atCapacityNever(route, pol) == FALSE

atCapacity(route, pol) == Len(route) >= pol.maxStopsPerRoute

InRoute(route, stop) == \E n \in 1..Len(route) : route[n] = stop

\* Step 3, forward: append the highest-count unused outgoing edge of the tail
\* until the route is full, no such edge is left, or the edge leads back into
\* the route.
RECURSIVE extendForward(_, _, _, _)
extendForward(route, used, top, pol) ==
    LET tail == route[Len(route)]
        out == { i \in 1..Len(top) : i \notin used /\ top[i].from = tail }
    IN  IF atCapacity(route, pol) \/ out = {}
        THEN [ route |-> route, used |-> used ]
        ELSE LET i == CHOOSE x \in out : \A y \in out : x <= y
             IN  IF InRoute(route, top[i].to)
                 THEN [ route |-> route, used |-> consume(used, i) ]
                 ELSE extendForward(Append(route, top[i].to), consume(used, i), top, pol)

\* Step 3, backward: the same from the head, over incoming edges.
RECURSIVE extendBackward(_, _, _, _)
extendBackward(route, used, top, pol) ==
    LET head == route[1]
        inc == { i \in 1..Len(top) : i \notin used /\ top[i].to = head }
    IN  IF atCapacity(route, pol) \/ inc = {}
        THEN [ route |-> route, used |-> used ]
        ELSE LET i == CHOOSE x \in inc : \A y \in inc : x <= y
             IN  IF InRoute(route, top[i].from)
                 THEN [ route |-> route, used |-> consume(used, i) ]
                 ELSE extendBackward(<< top[i].from >> \o route, consume(used, i), top, pol)

\* Variant: a route of two stops is emitted too.
longEnoughFromTwo(route) == Len(route) >= 2

\* Step 5: a route is emitted with at least three stops.
longEnough(route) == Len(route) >= 3

\* The n-th route emitted: zero capacity, the stops in order.
makeRoute(n, route) == [ id |-> n, stopIds |-> route, vehicleCapacity |-> 0 ]

\* Steps 3 to 5 over the seeds, in descending count order.
RECURSIVE seedRoutes(_, _, _, _, _)
seedRoutes(i, routes, used, top, pol) ==
    IF i > Len(top) \/ Len(routes) >= pol.maxRoutes THEN routes
    ELSE IF i \in used THEN seedRoutes(i + 1, routes, used, top, pol)
    ELSE LET fwd == extendForward(<< top[i].from, top[i].to >>, consume(used, i), top, pol)
             bwd == extendBackward(fwd.route, fwd.used, top, pol)
         IN  seedRoutes(i + 1,
                        IF longEnough(bwd.route)
                        THEN Append(routes, makeRoute(Len(routes) + 1, bwd.route))
                        ELSE routes,
                        bwd.used, top, pol)

generateRoutesFromFlow(stops, edges, pol) ==
    seedRoutes(1, << >>, {}, topEdgesOf(edges, stops, pol), pol)

\* useSimulation.ts: the policy generateFromFlow passes.
GENERATE_POLICY ==
    [ topEdges |-> 120, minCount |-> 8, maxRoutes |-> 8, maxStopsPerRoute |-> 18 ]

Policies ==
    { GENERATE_POLICY,
      [ topEdges |-> 10, minCount |-> 5, maxRoutes |-> 1, maxStopsPerRoute |-> 5 ],
      [ topEdges |-> 10, minCount |-> 2, maxRoutes |-> 2, maxStopsPerRoute |-> 3 ],
      [ topEdges |-> 2, minCount |-> 5, maxRoutes |-> 2, maxStopsPerRoute |-> 4 ] }

RouteStops == << "S1", "S2", "S3", "S4" >>

\* The directed pairs of the flow snapshots, in snapshot order; X is no stop.
FlowPairs ==
    << << "S1", "S2" >>, << "S2", "S3" >>, << "S1", "S3" >>,
       << "S3", "S4" >>, << "S4", "S2" >>, << "S3", "X" >> >>

\* The traversal counts of a pair (0: the pair was never recorded).
FlowCounts == { 0, 2, 9, 10 }

\* The snapshot with the given count for each pair, unrecorded pairs left out.
SnapshotOf(counts) ==
    SelectSeq([ n \in 1..Len(FlowPairs) |->
                  [ from |-> FlowPairs[n][1], to |-> FlowPairs[n][2], count |-> counts[n] ] ],
              LAMBDA e : e.count > 0)

InitRoutes ==
    /\ EngineIdle
    /\ FlowIdle
    /\ GraphIdle
    /\ HookIdle
    /\ UnitIdle
    /\ networkStops = RouteStops
    /\ flowEdges \in { SnapshotOf(counts) : counts \in [ 1..Len(FlowPairs) -> FlowCounts ] }
    /\ policy \in Policies
    /\ generatedRoutes = << >>

Generate ==
    /\ generatedRoutes' = generateRoutesFromFlow(networkStops, flowEdges, policy)
    /\ UNCHANGED << networkStops, flowEdges, policy, engineVars, flowVars, graphVars,
                    hookVars, unitVars >>

NextRoutes == Generate

SpecRoutes == InitRoutes /\ [][NextRoutes]_vars

\* The adjacent pairs of the emitted routes, as (route, position).
RouteLinks(routes) ==
    UNION { { << r, n >> : n \in 1..(Len(routes[r].stopIds) - 1) } : r \in 1..Len(routes) }

LinkFrom(routes, rn) == routes[rn[1]].stopIds[rn[2]]

LinkTo(routes, rn) == routes[rn[1]].stopIds[rn[2] + 1]

ExampleFlow ==
    << [ from |-> "S1", to |-> "S2", count |-> 10 ],
       [ from |-> "S2", to |-> "S3", count |-> 9 ],
       [ from |-> "S1", to |-> "S3", count |-> 2 ] >>

ExamplePolicy == [ topEdges |-> 10, minCount |-> 5, maxRoutes |-> 1, maxStopsPerRoute |-> 5 ]

\* C14: a generation emits at most maxRoutes routes, each of at least 3 and at
\* most maxStopsPerRoute stops, no stop twice in a route; and from the flow
\* (S1,S2) x 10, (S2,S3) x 9, (S1,S3) x 2 with minCount 5, topEdges 10,
\* maxRoutes 1, maxStopsPerRoute 5 it emits the one route S1, S2, S3.
C14_RouteBounds ==
    [][ /\ Len(generatedRoutes') <= policy.maxRoutes
        /\ \A r \in 1..Len(generatedRoutes') :
              LET stopIds == generatedRoutes'[r].stopIds
              IN  /\ Len(stopIds) >= 3
                  /\ Len(stopIds) <= policy.maxStopsPerRoute
                  /\ \A n, m \in 1..Len(stopIds) : stopIds[n] = stopIds[m] => n = m
        /\ ( flowEdges = ExampleFlow /\ policy = ExamplePolicy )
           => /\ Len(generatedRoutes') = 1
              /\ generatedRoutes'[1].stopIds = << "S1", "S2", "S3" >> ]_vars

\* The routes of the example have been generated.
C14_Witness ==
    /\ flowEdges = ExampleFlow
    /\ policy = ExamplePolicy
    /\ Len(generatedRoutes) = 1
    /\ generatedRoutes[1].stopIds = << "S1", "S2", "S3" >>

\* The flow edge at position n is a qualifying edge within the top N: its
\* count reaches the minimum, its ends are stops, and fewer than topEdges such
\* edges come before it (a greater count, or the same count and earlier).
InTopEdges(n) ==
    LET ok(e) == /\ e.count >= policy.minCount
                 /\ \E x \in 1..Len(networkStops) : networkStops[x] = e.from
                 /\ \E x \in 1..Len(networkStops) : networkStops[x] = e.to
    IN  /\ ok(flowEdges[n])
        /\ Cardinality({ j \in 1..Len(flowEdges) :
                           /\ ok(flowEdges[j])
                           /\ \/ flowEdges[j].count > flowEdges[n].count
                              \/ flowEdges[j].count = flowEdges[n].count /\ j < n })
             < policy.topEdges

\* C15: every adjacent pair of stops of an emitted route is a directed flow
\* edge of the filtered set (count at least minCount, both ends valid stops,
\* within the top N by count).
C15_LinksAreFlowEdges ==
    \A rn \in RouteLinks(generatedRoutes) :
        \E n \in 1..Len(flowEdges) :
            /\ flowEdges[n].from = LinkFrom(generatedRoutes, rn)
            /\ flowEdges[n].to = LinkTo(generatedRoutes, rn)
            /\ InTopEdges(n)

\* A route has been emitted although the flow holds an edge between two of
\* its stops that is below the minimum count, and a qualifying edge beyond
\* the top N.
C15_Witness ==
    /\ Len(generatedRoutes) >= 1
    /\ \E n \in 1..Len(flowEdges) :
          /\ flowEdges[n].count < policy.minCount
          /\ InRoute(generatedRoutes[1].stopIds, flowEdges[n].from)
          /\ InRoute(generatedRoutes[1].stopIds, flowEdges[n].to)
    /\ \E n \in 1..Len(flowEdges) :
          /\ flowEdges[n].count >= policy.minCount
          /\ InRoute(networkStops, flowEdges[n].from)
          /\ InRoute(networkStops, flowEdges[n].to)
          /\ ~InTopEdges(n)

\* C16: no directed edge is the adjacent pair of two emitted routes, or of
\* one route at two places.
C16_EdgeConsumedOnce ==
    \A rn, rm \in RouteLinks(generatedRoutes) :
        ( /\ LinkFrom(generatedRoutes, rn) = LinkFrom(generatedRoutes, rm)
          /\ LinkTo(generatedRoutes, rn) = LinkTo(generatedRoutes, rm) )
        => rn = rm

\* Two routes have been emitted that have a stop in common.
C16_Witness ==
    /\ Len(generatedRoutes) = 2
    /\ \E n \in 1..Len(generatedRoutes[1].stopIds) :
          InRoute(generatedRoutes[2].stopIds, generatedRoutes[1].stopIds[n])

----------------------------------------------------------------------------
(* useSimulation.ts: the hook's state, its commands and its tick effect *)

simStartMinute == 360

\* The length of the run window in minutes (16 * 60 in the hook).
simDurationMinutes == 3

\* The scenarios a run of the model begins at most.
MaxRuns == 2

calculateMetrics(ags) ==
    [ totalCO2 |-> SumOver(1..Len(ags), [ i \in 1..Len(ags) |-> ags[i].carbonEmitted ]),
      totalDistance |-> SumOver(1..Len(ags), [ i \in 1..Len(ags) |-> ags[i].distanceTraveled ]) ]

\* The React state, as the record the updaters are handed.
HookState ==
    [ agents |-> agents, vehicles |-> vehicles, generatedRoutes |-> generatedRoutes,
      scenario |-> scenario, initialAgents |-> initialAgents,
      networkStops |-> networkStops, currentMinute |-> currentMinute,
      isRunning |-> isRunning, isPaused |-> isPaused,
      metrics |-> metrics, analysis |-> analysis ]

setState(next) ==
    /\ agents' = next.agents
    /\ vehicles' = next.vehicles
    /\ generatedRoutes' = next.generatedRoutes
    /\ scenario' = next.scenario
    /\ initialAgents' = next.initialAgents
    /\ networkStops' = next.networkStops
    /\ currentMinute' = next.currentMinute
    /\ isRunning' = next.isRunning
    /\ isPaused' = next.isPaused
    /\ metrics' = next.metrics
    /\ analysis' = next.analysis

startUpdater(prev, ags, stops) ==
    [ prev EXCEPT !.networkStops = stops,
                  !.agents = ags,
                  !.vehicles = << >>,
                  !.generatedRoutes = << >>,
                  !.currentMinute = simStartMinute,
                  !.isRunning = TRUE,
                  !.isPaused = FALSE,
                  !.metrics = EMPTY_METRICS,
                  !.analysis = NoAnalysis,
                  !.initialAgents = Just(ags),
                  !.scenario = "baseline" ]

pauseUpdater(prev) == [ prev EXCEPT !.isPaused = TRUE ]

resumeUpdater(prev) == [ prev EXCEPT !.isPaused = FALSE ]

\* Variant: the analysis snapshots survive the reset.
resetUpdaterKeepingAnalysis(prev) ==
    [ prev EXCEPT !.agents = << >>,
                  !.vehicles = << >>,
                  !.generatedRoutes = << >>,
                  !.currentMinute = 0,
                  !.isRunning = FALSE,
                  !.isPaused = FALSE,
                  !.metrics = EMPTY_METRICS ]

resetUpdater(prev) ==
    [ prev EXCEPT !.agents = << >>,
                  !.vehicles = << >>,
                  !.generatedRoutes = << >>,
                  !.currentMinute = 0,
                  !.isRunning = FALSE,
                  !.isPaused = FALSE,
                  !.metrics = EMPTY_METRICS,
                  !.analysis = NoAnalysis ]

clearGeneratedRoutesUpdater(prev) ==
    [ prev EXCEPT !.generatedRoutes = << >>,
                  !.analysis.proposal = Nothing ]

\* The flow accumulator as start, the proposal updater and reset leave it.
\* Variant: start leaves the accumulator as it is.
flowAfterStartKept(f) == f

flowAfterStart(f) == clearFlow

flowAfterProposal(f) == clearFlow

flowAfterReset(f) == clearFlow

baselineSnapshot(prev, edges) ==
    LET summary == computeFlowSummary(edges)
    IN  [ minute |-> prev.currentMinute,
          edges |-> summary.edgesCount,
          totalTraversals |-> summary.totalTraversals,
          peakHour |-> summary.peakHour,
          totalCO2 |-> prev.metrics.totalCO2,
          totalDistanceKm |-> prev.metrics.totalDistance ]

\* The routes of the scenario: none in the baseline, the base routes and the
\* generated ones in the proposal.
activeRoutes(prev) ==
    IF prev.scenario = "proposal" THEN BUS_ROUTES \o prev.generatedRoutes ELSE << >>

\* Variant: the run is over only once the minute has passed the end minute.
atEndMinuteLate(prev) == prev.currentMinute > simStartMinute + simDurationMinutes

atEndMinute(prev) == prev.currentMinute >= simStartMinute + simDurationMinutes

\* The updater of the interval callback: at the end minute the run is paused
\* (and the baseline snapshot taken if there is none); before it the
\* population is stepped by one minute.
tickUpdater(prev, edges) ==
    IF atEndMinute(prev)
    THEN IF prev.analysis.baseline = Nothing
         THEN [ prev EXCEPT !.isPaused = TRUE,
                            !.analysis.baseline = Just(baselineSnapshot(prev, edges)) ]
         ELSE [ prev EXCEPT !.isPaused = TRUE ]
    ELSE LET result == stepSimulation(prev.agents, << >>, prev.currentMinute,
                                      activeRoutes(prev))
         IN  [ prev EXCEPT !.agents = result.agents,
                           !.currentMinute = @ + 1,
                           !.metrics = calculateMetrics(result.agents) ]

computeDemandCapturedByRoutes(routes, edges) ==
    LET totalTraversals == SumOver(edges, [ e \in edges |-> e.count ])
        flowByEdge(from, to) ==
            IF \E e \in edges : e.from = from /\ e.to = to
            THEN (CHOOSE e \in edges : e.from = from /\ e.to = to).count
            ELSE 0
        links == RouteLinks(routes)
        captured == SumOver(links, [ rn \in links |->
                                       flowByEdge(LinkFrom(routes, rn), LinkTo(routes, rn)) ])
        clamped == Min(captured, totalTraversals)
    IN  [ capturedTraversals |-> clamped,
          totalTraversals |-> totalTraversals,
          capturedPct |-> IF totalTraversals > 0
                          THEN (clamped * 100) \div totalTraversals ELSE 0 ]

proposalSnapshot(minute, enriched, edges) ==
    [ minute |-> minute,
      routesCount |-> Len(enriched),
      demandCapturedPct |-> computeDemandCapturedByRoutes(enriched, edges).capturedPct,
      demandCapturedTraversals |->
          computeDemandCapturedByRoutes(enriched, edges).capturedTraversals ]

proposalUpdater(prev, enriched, proposal) ==
    [ prev EXCEPT !.generatedRoutes = enriched,
                  !.analysis.proposal = Just(proposal),
                  !.agents = IF prev.initialAgents # Nothing THEN prev.initialAgents[1] ELSE @,
                  !.currentMinute = simStartMinute,
                  !.isRunning = TRUE,
                  !.isPaused = FALSE,
                  !.scenario = "proposal",
                  !.metrics = EMPTY_METRICS ]

\* The pairs of a record log in the order they were first recorded.
RECURSIVE firstRecorded(_, _, _)
firstRecorded(log, n, seen) ==
    IF n > Len(log) THEN << >>
    ELSE LET key == << log[n].from, log[n].to >>
         IN  IF key \in seen THEN firstRecorded(log, n + 1, seen)
             ELSE << key >> \o firstRecorded(log, n + 1, seen \cup { key })

\* getFlowEdges(): the edges of the accumulator, in insertion order.
getFlowEdges(f, log) ==
    LET order == SelectSeq(firstRecorded(log, 1, {}), LAMBDA key : key \in DOMAIN f)
    IN  [ n \in 1..Len(order) |->
            [ from |-> order[n][1], to |-> order[n][2], count |-> f[order[n]].count ] ]

\* Variant: the generator empties the accumulator as it reads it.
invokeGeneratorDraining(f, log, stops) ==
    [ routes |-> generateRoutesFromFlow(stops, getFlowEdges(f, log), GENERATE_POLICY),
      flow |-> clearFlow ]

\* generateFromFlow, up to the await: the routes generated from the
\* accumulated flow, and the accumulator as the generator leaves it.
invokeGenerator(f, log, stops) ==
    [ routes |-> generateRoutesFromFlow(stops, getFlowEdges(f, log), GENERATE_POLICY),
      flow |-> f ]

\* The edge traversals of one tick are recorded one by one.
RECURSIVE recordAll(_, _, _)
recordAll(f, traversals, minute) ==
    IF traversals = << >> THEN f
    ELSE recordAll(record(f, Head(traversals)[1], Head(traversals)[2], minute),
                   Tail(traversals), minute)

\* The traversals a tick may bring: none, or eight agents crossing from s1 to
\* s2 and eight from s2 to s3.
TickTraversals ==
    { << >>,
      [ n \in 1..16 |-> IF n <= 8 THEN << "s1", "s2" >> ELSE << "s2", "s3" >> ] }

\* The stops a started run is given.
CityStops == [ n \in 1..Len(StopLayout) |-> StopLayout[n].id ]

\* The populations start creates: one agent, with a trip at the first minute
\* to a place within walking distance, or a later trip to a place further off.
StartAgents ==
    { << createAgent("agent_0", 3, << [ departureMinute |-> simStartMinute,
                                        destination |-> 10 ] >>) >>,
      << createAgent("agent_0", 3, << [ departureMinute |-> simStartMinute + 1,
                                        destination |-> 40 ] >>) >> }

InitHook ==
    /\ BUS_STOPS = StopLayout
    /\ BUS_ROUTES = RouteLayout
    /\ dataModule = "part_000"
    /\ agents = << >>
    /\ vehicles = << >>
    /\ currentMinute = 0
    /\ waitStreak = << >>
    /\ prevAgents = << >>
    /\ stepError = FALSE
    /\ FlowIdle
    /\ GraphIdle
    /\ networkStops = CityStops
    /\ flowEdges = << >>
    /\ policy = GENERATE_POLICY
    /\ generatedRoutes = << >>
    /\ HookIdle
    /\ UnitIdle

HookFrame ==
    /\ prevAgents' = agents
    /\ UNCHANGED << BUS_STOPS, BUS_ROUTES, dataModule, waitStreak, stepError, graphVars,
                    flowEdges, policy, unitVars >>

\* start is called and awaits the POI fetch.
StartCall ==
    /\ ~startPending
    /\ runCount < MaxRuns
    /\ startPending' = TRUE
    /\ lastCommand' = "start"
    /\ setState(HookState)
    /\ UNCHANGED << flowVars, timerRef, generatePending, runCount >>
    /\ HookFrame

\* The fetch is over: the population is created, the flow cleared and the
\* baseline run begun.
StartResolved ==
    /\ startPending
    /\ \E ags \in StartAgents : setState(startUpdater(HookState, ags, CityStops))
    /\ flow' = flowAfterStart(flow)
    /\ flowLog' = IF flow' = clearFlow THEN << >> ELSE flowLog
    /\ flowCleared' = TRUE
    /\ startPending' = FALSE
    /\ runCount' = runCount + 1
    /\ lastCommand' = "started"
    /\ UNCHANGED << timerRef, generatePending >>
    /\ HookFrame

Pause ==
    /\ setState(pauseUpdater(HookState))
    /\ lastCommand' = "pause"
    /\ UNCHANGED << flowVars, timerRef, startPending, generatePending, runCount >>
    /\ HookFrame

Resume ==
    /\ setState(resumeUpdater(HookState))
    /\ lastCommand' = "resume"
    /\ UNCHANGED << flowVars, timerRef, startPending, generatePending, runCount >>
    /\ HookFrame

Reset ==
    /\ timerRef' = FALSE
    /\ flow' = flowAfterReset(flow)
    /\ flowLog' = IF flow' = clearFlow THEN << >> ELSE flowLog
    /\ flowCleared' = TRUE
    /\ setState(resetUpdater(HookState))
    /\ lastCommand' = "reset"
    /\ UNCHANGED << startPending, generatePending, runCount >>
    /\ HookFrame

\* The tick effect runs after a change of isRunning or isPaused: its cleanup
\* clears the interval, and it sets a new one while the run is on.
Effect ==
    /\ timerRef # (isRunning /\ ~isPaused)
    /\ timerRef' = (isRunning /\ ~isPaused)
    /\ lastCommand' = "effect"
    /\ setState(HookState)
    /\ UNCHANGED << flowVars, startPending, generatePending, runCount >>
    /\ HookFrame

\* The interval fires: its updater is applied to the state, and the step
\* records the traversals of the minute in the flow accumulator.
TimerTick ==
    /\ timerRef
    /\ setState(tickUpdater(HookState, snapshot(flow)))
    /\ \E traversals \in TickTraversals :
         /\ flow' = IF atEndMinute(HookState) THEN flow
                    ELSE recordAll(flow, traversals, currentMinute)
         /\ flowLog' = IF atEndMinute(HookState) THEN flowLog
                       ELSE flowLog \o [ n \in 1..Len(traversals) |->
                                           [ from |-> traversals[n][1], to |-> traversals[n][2],
                                             minute |-> currentMinute, run |-> runCount ] ]
    /\ lastCommand' = "tick"
    /\ UNCHANGED << flowCleared, timerRef, startPending, generatePending, runCount >>
    /\ HookFrame

\* generateFromFlow is called: the routes are generated from the accumulated
\* flow, and the call awaits their geometry.
GenerateCall ==
    /\ generatePending = Nothing
    /\ runCount < MaxRuns
    /\ LET invoked == invokeGenerator(flow, flowLog, networkStops)
       IN  /\ generatePending' = Just([ routes |-> invoked.routes, minute |-> currentMinute ])
           /\ flow' = invoked.flow
           /\ flowLog' = IF flow' = flow THEN flowLog ELSE << >>
    /\ lastCommand' = "generate"
    /\ setState(HookState)
    /\ UNCHANGED << flowCleared, timerRef, startPending, runCount >>
    /\ HookFrame

\* The geometry is there: the proposal snapshot is taken, the agents are put
\* back to their initial state, the flow is cleared and the proposal run begun.
GenerateResolved ==
    /\ generatePending # Nothing
    /\ setState(proposalUpdater(HookState, generatePending[1].routes,
                                proposalSnapshot(generatePending[1].minute,
                                                 generatePending[1].routes, snapshot(flow))))
    /\ flow' = flowAfterProposal(flow)
    /\ flowLog' = IF flow' = clearFlow THEN << >> ELSE flowLog
    /\ flowCleared' = TRUE
    /\ generatePending' = Nothing
    /\ runCount' = runCount + 1
    /\ lastCommand' = "proposal"
    /\ UNCHANGED << timerRef, startPending >>
    /\ HookFrame

ClearGeneratedRoutes ==
    /\ setState(clearGeneratedRoutesUpdater(HookState))
    /\ lastCommand' = "clearGeneratedRoutes"
    /\ UNCHANGED << flowVars, timerRef, startPending, generatePending, runCount >>
    /\ HookFrame

NextHook ==
    \/ StartCall
    \/ StartResolved
    \/ Pause
    \/ Resume
    \/ Reset
    \/ Effect
    \/ TimerTick
    \/ GenerateCall
    \/ GenerateResolved
    \/ ClearGeneratedRoutes

SpecHook == InitHook /\ [][NextHook]_vars

\* ---------------------------------------------------------------------
\* Properties of the simulation controls
\* ---------------------------------------------------------------------

\* C17, as stated: while the simulation is paused no tick is applied; a
\* timer callback that fires while isPaused is set leaves the agents, the flow
\* and currentMinute as they were.
C17_NoTickWhilePaused ==
    [][ (isPaused /\ lastCommand' = "tick")
          => /\ agents' = agents
             /\ flow' = flow
             /\ currentMinute' = currentMinute ]_vars

\* C18: after reset the agents, the vehicles and the generated routes are
\* empty, the flow accumulator is empty, the minute is 0, the run is neither
\* running nor paused, both analysis snapshots are null and no timer is set.
C18_ResetClearsAll ==
    lastCommand = "reset"
      => /\ agents = << >>
         /\ vehicles = << >>
         /\ generatedRoutes = << >>
         /\ flow = clearFlow
         /\ currentMinute = 0
         /\ ~isRunning
         /\ ~isPaused
         /\ analysis.baseline = Nothing
         /\ analysis.proposal = Nothing
         /\ ~timerRef

\* A reset of a run that had agents and an initial population.
C18_Witness ==
    /\ lastCommand = "reset"
    /\ prevAgents # << >>
    /\ initialAgents # Nothing
    /\ runCount = 2

\* C19: the flow accumulator is empty when a scenario begins, and every
\* traversal it holds was recorded in the scenario that is running.
C19_FlowOfOneScenario ==
    /\ lastCommand \in { "started", "proposal" } => flow = clearFlow
    /\ \A n \in 1..Len(flowLog) : flowLog[n].run = runCount
    /\ SumOver(DOMAIN flow, [ key \in DOMAIN flow |-> flow[key].count ]) = Len(flowLog)

\* The proposal run, begun from routes generated from the baseline flow, has
\* recorded traversals of its own.
C19_Witness ==
    /\ scenario = "proposal"
    /\ generatedRoutes # << >>
    /\ runCount = 2
    /\ flow # clearFlow

----------------------------------------------------------------------------
(* The run over a degenerate stop set *)

\* The stop sets with fewer than two stops: none, and s1 alone.
SparseStops == { << >>, << StopLayout[1] >> }

InitSparse ==
    /\ BUS_STOPS \in SparseStops
    /\ BUS_ROUTES = RouteLayout
    /\ dataModule \in { "part_000", "part_001" }
    /\ agents \in { << a0, a1 >> : a0 \in InitialAgent(1), a1 \in InitialAgent(2) }
    /\ vehicles = createVehicles(BUS_ROUTES)
    /\ currentMinute = 0
    /\ waitStreak = [ i \in 1..Len(agents) |-> 0 ]
    /\ prevAgents = agents
    /\ stepError = FALSE
    /\ FlowIdle
    /\ GraphIdle
    /\ RoutesIdle
    /\ HookIdle
    /\ UnitIdle

NextSparse == Tick

SpecSparse == InitSparse /\ [][NextSparse]_vars

\* C21, as stated: with fewer than two stops a step changes no agent, no
\* vehicle and nothing in the flow accumulator.
C21_DegenerateStepIsNoOp ==
    [][ Len(BUS_STOPS) < 2
          => /\ agents' = agents
             /\ vehicles' = vehicles
             /\ flow' = flow ]_vars

\* C22, as stated: with no stop at all, a step in which a departure is due
\* does not fail, and the departing agent has null stop ids and walks
\* directly to its destination.
C22_EmptyStopSetWalksDirect ==
    [][ BUS_STOPS = << >>
          => /\ ~stepError'
             /\ \A i \in AgentIx :
                  Departing(i) => /\ agents'[i].nearestStopId = NULL
                                  /\ agents'[i].destinationStopId = NULL
                                  /\ agents'[i].state = "walking_to_dest" ]_vars

----------------------------------------------------------------------------
(* engine.ts: generateSchedule *)

\* Math.random() is a number of RandomSteps-ths, from 0 to just below 1.
RandomSteps == 180

\* Math.random() < num / den
RandomBelow(r, num, den) == r * den < num * RandomSteps

\* Math.floor(Math.random() * n)
RandomFloor(r, n) == (r * n) \div RandomSteps

\* part_000: the fallback set, one education POI and three leisure POIs.
FALLBACK_POIS ==
    << [ type |-> "education", location |-> 10 ],
       [ type |-> "leisure", location |-> 40 ],
       [ type |-> "leisure", location |-> 88 ],
       [ type |-> "leisure", location |-> 60 ] >>

\* part_001: POIs of every category the schedules draw from.
FULL_POIS ==
    << [ type |-> "education", location |-> 10 ],
       [ type |-> "social", location |-> 40 ],
       [ type |-> "retail", location |-> 88 ],
       [ type |-> "education", location |-> 12 ],
       [ type |-> "healthcare", location |-> 60 ],
       [ type |-> "employment", location |-> 70 ],
       [ type |-> "employment", location |-> 72 ] >>

POIS == IF dataModule = "part_001" THEN FULL_POIS ELSE FALLBACK_POIS

getAgeGroup(age) ==
    IF age < 5 THEN "0-4"
    ELSE IF age < 16 THEN "5-15"
    ELSE IF age < 25 THEN "16-24"
    ELSE IF age < 45 THEN "25-44"
    ELSE IF age < 65 THEN "45-64"
    ELSE "65+"

poisOfType(type) == SelectSeq(POIS, LAMBDA p : p.type = type)

\* pois[Math.floor(Math.random() * pois.length)]: undefined of an empty array.
randomPoi(pois, r) ==
    IF Len(pois) = 0 THEN undefined ELSE pois[RandomFloor(r, Len(pois)) + 1]

trip(base, size, r, destination, type) ==
    [ departureMinute |-> base + RandomFloor(r, size),
      destination |-> destination,
      type |-> type ]

\* Variant: the young adults' return window begins with their shopping window.
homeWindowOverlapping(ageGroup, employed) ==
    CASE ageGroup = "5-15" -> [ base |-> 930, size |-> 30 ]
      [] ageGroup = "16-24" -> [ base |-> 1020, size |-> 120 ]
      [] ageGroup \in { "25-44", "45-64" } /\ employed -> [ base |-> 1050, size |-> 120 ]
      [] ageGroup \in { "25-44", "45-64" } /\ ~employed -> [ base |-> 780, size |-> 180 ]
      [] OTHER -> [ base |-> 780, size |-> 120 ]

\* The window of the return home: its first minute and its length.
homeWindow(ageGroup, employed) ==
    CASE ageGroup = "5-15" -> [ base |-> 930, size |-> 30 ]
      [] ageGroup = "16-24" -> [ base |-> 1080, size |-> 120 ]
      [] ageGroup \in { "25-44", "45-64" } /\ employed -> [ base |-> 1050, size |-> 120 ]
      [] ageGroup \in { "25-44", "45-64" } /\ ~employed -> [ base |-> 780, size |-> 180 ]
      [] OTHER -> [ base |-> 780, size |-> 120 ]

homeTrip(ageGroup, employed, r, homeLocation) ==
    trip(homeWindow(ageGroup, employed).base, homeWindow(ageGroup, employed).size,
         r, homeLocation, "home")

\* schedule.sort by departureMinute: a stable insertion.
RECURSIVE insertByDeparture(_, _)
insertByDeparture(sorted, entry) ==
    IF sorted = << >> THEN << entry >>
    ELSE IF Head(sorted).departureMinute <= entry.departureMinute
    THEN << Head(sorted) >> \o insertByDeparture(Tail(sorted), entry)
    ELSE << entry >> \o sorted

RECURSIVE sortByDeparture(_)
sortByDeparture(schedule) ==
    IF schedule = << >> THEN << >>
    ELSE insertByDeparture(sortByDeparture(SubSeq(schedule, 1, Len(schedule) - 1)),
                           schedule[Len(schedule)])

returned(schedule) == [ schedule |-> sortByDeparture(schedule), threw |-> FALSE ]

\* Reading .location of an undefined POI throws.
thrown == [ schedule |-> << >>, threw |-> TRUE ]

scheduleChild(d, homeLocation) ==
    LET school == randomPoi(poisOfType("education"), d.poi1)
    IN  IF school = undefined THEN thrown
        ELSE returned(<< trip(450, 30, d.minute1, school.location, "education"),
                         homeTrip("5-15", FALSE, d.minuteHome, homeLocation) >>)

scheduleYoung(d, homeLocation) ==
    LET studies == RandomBelow(d.chance1, 6, 10)
        first == IF studies THEN randomPoi(poisOfType("education"), d.poi1)
                 ELSE randomPoi(poisOfType("employment"), d.poi1)
        shops == RandomBelow(d.chance2, 3, 10)
        shop == randomPoi(poisOfType("retail"), d.poi2)
    IN  IF first = undefined THEN thrown
        ELSE IF shops /\ shop = undefined THEN thrown
        ELSE returned(
               << IF studies THEN trip(480, 60, d.minute1, first.location, "education")
                  ELSE trip(420, 60, d.minute1, first.location, "work") >>
               \o (IF shops THEN << trip(1020, 60, d.minute2, shop.location, "shopping") >>
                   ELSE << >>)
               \o << homeTrip("16-24", FALSE, d.minuteHome, homeLocation) >>)

scheduleAdult(ageGroup, d, homeLocation) ==
    LET employed == RandomBelow(d.chance1, 459, 1000)
        work == randomPoi(poisOfType("employment"), d.poi1)
        shops == RandomBelow(d.chance2, 25, 100)
        shop == randomPoi(poisOfType("retail"), d.poi2)
        goesOut == RandomBelow(d.chance2, 5, 10)
        dest == randomPoi(poisOfType("retail") \o poisOfType("social")
                            \o poisOfType("healthcare"), d.poi1)
    IN  IF employed
        THEN IF work = undefined THEN thrown
             ELSE IF shops /\ shop = undefined THEN thrown
             ELSE returned(
                    << trip(390, 90, d.minute1, work.location, "work") >>
                    \o (IF shops THEN << trip(1020, 30, d.minute2, shop.location, "shopping") >>
                        ELSE << >>)
                    \o << homeTrip(ageGroup, TRUE, d.minuteHome, homeLocation) >>)
        ELSE IF ~goesOut THEN returned(<< >>)
        ELSE IF dest = undefined THEN thrown
        ELSE returned(<< trip(600, 180, d.minute1, dest.location, dest.type),
                         homeTrip(ageGroup, FALSE, d.minuteHome, homeLocation) >>)

scheduleElderly(d, homeLocation) ==
    LET goesOut == RandomBelow(d.chance1, 4, 10)
        dest == randomPoi(poisOfType("healthcare") \o poisOfType("social")
                            \o poisOfType("retail"), d.poi1)
    IN  IF ~goesOut THEN returned(<< >>)
        ELSE IF dest = undefined THEN thrown
        ELSE returned(<< trip(600, 120, d.minute1, dest.location, dest.type),
                         homeTrip("65+", FALSE, d.minuteHome, homeLocation) >>)

generateSchedule(age, homeLocation, d) ==
    LET ageGroup == getAgeGroup(age)
    IN  CASE ageGroup = "5-15" -> scheduleChild(d, homeLocation)
          [] ageGroup = "16-24" -> scheduleYoung(d, homeLocation)
          [] ageGroup \in { "25-44", "45-64" } -> scheduleAdult(ageGroup, d, homeLocation)
          [] ageGroup = "65+" -> scheduleElderly(d, homeLocation)
          [] OTHER -> returned(<< >>)

\* One age of each age group.
Ages == { 3, 10, 20, 30, 50, 70 }

\* The least and the greatest value of Math.random().
RandomDraws == { 0, RandomSteps - 1 }

\* The draws of one call, by what each is used for.
ScheduleDraws ==
    [ chance1 : RandomDraws, poi1 : RandomDraws, minute1 : RandomDraws,
      chance2 : RandomDraws, poi2 : RandomDraws, minute2 : RandomDraws,
      minuteHome : RandomDraws ]

InitSchedule ==
    /\ agents = << >>
    /\ vehicles = << >>
    /\ currentMinute = 0
    /\ BUS_STOPS = << >>
    /\ BUS_ROUTES = << >>
    /\ dataModule \in { "part_000", "part_001" }
    /\ waitStreak = << >>
    /\ prevAgents = << >>
    /\ stepError = FALSE
    /\ FlowIdle
    /\ GraphIdle
    /\ RoutesIdle
    /\ HookIdle
    /\ scheduled \in [ age : Ages, homeLocation : Homes, draws : ScheduleDraws,
                       called : { FALSE }, schedule : { << >> }, threw : { FALSE } ]
    /\ moved = << >>

GenerateSchedule ==
    /\ ~scheduled.called
    /\ LET result == generateSchedule(scheduled.age, scheduled.homeLocation, scheduled.draws)
       IN  scheduled' = [ scheduled EXCEPT !.called = TRUE,
                                           !.schedule = result.schedule,
                                           !.threw = result.threw ]
    /\ UNCHANGED << engineVars, flowVars, graphVars, routeVars, hookVars, moved >>

NextSchedule == GenerateSchedule

SpecSchedule == InitSchedule /\ [][NextSchedule]_vars

\* C23, as stated: generateSchedule returns a schedule for every age, also
\* when a POI category it draws from is empty.
C23_NeverFails ==
    scheduled.called => ~scheduled.threw

HomeLast(schedule) ==
    /\ schedule[Len(schedule)].type = "home"
    /\ \A n \in 1..(Len(schedule) - 1) :
         /\ schedule[n].type # "home"
         /\ schedule[n].departureMinute < schedule[Len(schedule)].departureMinute

\* C24: a schedule that generateSchedule returns is sorted ascending by
\* departure minute, and if it is not empty its last entry is the return home,
\* which departs strictly after every outbound trip.
C24_SortedHomeLast ==
    (scheduled.called /\ ~scheduled.threw)
      => /\ \A n \in 1..(Len(scheduled.schedule) - 1) :
              scheduled.schedule[n].departureMinute
                <= scheduled.schedule[n + 1].departureMinute
         /\ scheduled.schedule # << >> => HomeLast(scheduled.schedule)

\* A schedule of three trips whose shopping trip departs at the last minute of
\* its window and whose return home departs at the first minute of its own.
C24_Witness ==
    /\ scheduled.called
    /\ Len(scheduled.schedule) = 3
    /\ scheduled.schedule[2].departureMinute = 1079
    /\ scheduled.schedule[3].departureMinute = 1080

----------------------------------------------------------------------------
(* The run over routes of several lengths, with riders *)

\* One route at a time: two, three or four stops, in either order along the
\* line, with two or three vehicles of one or two places each.
VehicleRoutes ==
    { << [ id |-> "r1", stopIds |-> stopIds, frequency |-> frequency,
           vehicleCapacity |-> capacity ] >> :
        stopIds \in { << "s1", "s2" >>, << "s1", "s2", "s3" >>,
                      << "s1", "s2", "s3", "s4" >>, << "s3", "s1" >> },
        frequency \in { 15, 10 },
        capacity \in { 1, 2 } }

\* Riders: an agent living by s1 with one trip, to a place whose nearest stop
\* is s2 or to one whose nearest stop is s3.
Rider(i) ==
    { createAgent(AgentIds[i], 3, << [ departureMinute |-> m, destination |-> p ] >>) :
        m \in OutboundMinutes, p \in { 50, 88 } }

InitVehicles ==
    /\ BUS_STOPS = StopLayout
    /\ BUS_ROUTES \in VehicleRoutes
    /\ dataModule \in { "part_000", "part_001" }
    /\ agents \in { << a0, a1 >> : a0 \in Rider(1), a1 \in Rider(2) }
    /\ vehicles = createVehicles(BUS_ROUTES)
    /\ currentMinute = 0
    /\ waitStreak = [ i \in 1..Len(agents) |-> 0 ]
    /\ prevAgents = agents
    /\ stepError = FALSE
    /\ FlowIdle
    /\ GraphIdle
    /\ RoutesIdle
    /\ HookIdle
    /\ UnitIdle

NextVehicles == Tick

SpecVehicles == InitVehicles /\ [][NextVehicles]_vars

VehicleIx == 1..Len(vehicles)

RouteOf(j) == RouteById(BUS_ROUTES, vehicles[j].routeId)

\* The vehicle arrives at a stop in this step: its progress is back at 0.
Arrives(j) == vehicles'[j].progress = 0 /\ currentMinute' = currentMinute + 1

\* The stop a vehicle arrives at in this step.
ArrivalStop(j) == StopById(RouteOf(j).stopIds[vehicles'[j].currentStopIndex + 1])

\* C25: on a route of n >= 2 stops both stop indices of a vehicle stay within
\* 0..n-1; a vehicle arrives at the stop it was heading for, turns round
\* exactly when that stop is the first or the last of the route, and heads
\* for the stop one further in its direction.
C25_PingPong ==
    [][ \A j \in VehicleIx :
          LET n == Len(RouteOf(j).stopIds)
              atEnd == vehicles'[j].currentStopIndex \in { 0, n - 1 }
          IN  n >= 2
                => /\ vehicles'[j].currentStopIndex \in 0..(n - 1)
                   /\ vehicles'[j].nextStopIndex \in 0..(n - 1)
                   /\ Arrives(j)
                        => /\ vehicles'[j].currentStopIndex = vehicles[j].nextStopIndex
                           /\ vehicles'[j].direction
                                = IF atEnd THEN 0 - vehicles[j].direction
                                  ELSE vehicles[j].direction
                           /\ vehicles'[j].nextStopIndex
                                = vehicles'[j].currentStopIndex + vehicles'[j].direction
                   /\ ~Arrives(j)
                        => /\ vehicles'[j].currentStopIndex = vehicles[j].currentStopIndex
                           /\ vehicles'[j].nextStopIndex = vehicles[j].nextStopIndex
                           /\ vehicles'[j].direction = vehicles[j].direction ]_vars

\* A vehicle of a route of three or more stops is back at the first stop,
\* heading forward again: it has turned round at both ends.
C25_Witness ==
    \E j \in VehicleIx :
        /\ Len(RouteOf(j).stopIds) >= 3
        /\ currentMinute > 0
        /\ vehicles[j].currentStopIndex = 0
        /\ vehicles[j].progress = 0
        /\ vehicles[j].direction = 1
        /\ vehicles[j].nextStopIndex = 1

\* C26: no vehicle carries more passengers than its capacity.
C26_WithinCapacity ==
    \A j \in VehicleIx : Len(vehicles[j].passengers) <= vehicles[j].capacity

\* A full vehicle stands at a stop where an agent it could have taken is
\* still waiting.
C26_Witness ==
    \E j \in VehicleIx : \E i \in AgentIx :
        /\ Len(vehicles[j].passengers) = vehicles[j].capacity
        /\ vehicles[j].progress = 0
        /\ agents[i].state = "waiting"
        /\ agents[i].nearestStopId = RouteOf(j).stopIds[vehicles[j].currentStopIndex + 1]
        /\ RouteServes(RouteOf(j), agents[i])

\* C27: every passenger of a vehicle is where the vehicle is.
C27_PassengersAtVehicle ==
    \A j \in VehicleIx : \A i \in AgentIx :
        SeqIncludes(vehicles[j].passengers, agents[i].id)
          => agents[i].currentLocation = vehicles[j].position

\* A vehicle with a passenger is between two stops.
C27_Witness ==
    \E j \in VehicleIx :
        /\ vehicles[j].passengers # << >>
        /\ vehicles[j].progress > 0
        /\ vehicles[j].position # StopById(RouteOf(j).stopIds[vehicles[j].currentStopIndex + 1]).location

\* The agent is taken aboard the vehicle in this step.
Boards(i, j) ==
    /\ ~SeqIncludes(vehicles[j].passengers, agents[i].id)
    /\ SeqIncludes(vehicles'[j].passengers, agents[i].id)

\* C29: an agent is taken aboard only by a vehicle that arrives at a stop in
\* that tick, and only if it was waiting, at that stop, for a destination stop
\* on the vehicle's route; it is then riding on that route.
C29_BoardsOnlyWaiting ==
    [][ \A j \in VehicleIx : \A i \in AgentIx :
          Boards(i, j)
            => /\ Arrives(j)
               /\ agents[i].state = "waiting"
               /\ agents[i].nearestStopId = ArrivalStop(j).id
               /\ SeqIncludes(RouteOf(j).stopIds, agents[i].destinationStopId)
               /\ agents'[i].state = "riding"
               /\ agents'[i].currentRouteId = vehicles[j].routeId ]_vars

\* An agent that was waiting has just been taken aboard, while another agent
\* waits at a stop for a destination stop that is not on the route.
C29_Witness ==
    /\ \E i \in AgentIx :
         /\ prevAgents[i].state = "waiting"
         /\ agents[i].state = "riding"
         /\ \E j \in VehicleIx : SeqIncludes(vehicles[j].passengers, agents[i].id)
    /\ \E i \in AgentIx :
         /\ agents[i].state \in { "waiting", "walking_to_dest" }
         /\ agents[i].waitingTime > 0
         /\ ~SeqIncludes(BUS_ROUTES[1].stopIds, agents[i].destinationStopId)

\* The passenger of the vehicle is at its destination stop when the vehicle
\* arrives in this step.
SetDown(i, j) ==
    /\ Arrives(j)
    /\ SeqIncludes(vehicles[j].passengers, agents[i].id)
    /\ agents[i].destinationStopId = ArrivalStop(j).id

CarriedOn(i, j) ==
    /\ Arrives(j)
    /\ SeqIncludes(vehicles[j].passengers, agents[i].id)
    /\ agents[i].destinationStopId # ArrivalStop(j).id

\* C30, as stated: a passenger set down is off the passenger list after the
\* tick, at the stop's location, with no route and in walking_to_dest; the
\* other passengers stay aboard.
C30_SetDownAtStop ==
    [][ \A j \in VehicleIx : \A i \in AgentIx :
          /\ SetDown(i, j)
               => /\ ~SeqIncludes(vehicles'[j].passengers, agents[i].id)
                  /\ agents'[i].currentLocation = ArrivalStop(j).location
                  /\ agents'[i].currentRouteId = NULL
                  /\ agents'[i].state = "walking_to_dest"
          /\ CarriedOn(i, j)
               => SeqIncludes(vehicles'[j].passengers, agents[i].id) ]_vars

\* C30, amended: a passenger set down is off the passenger list after the
\* tick, with no route, and has taken its first walking step from the stop
\* towards its target in the same tick: it is in walking_to_dest one step from
\* the stop, or at_destination at its target if that was within one step; the
\* other passengers stay aboard, riding.
C30_SetDownAndWalking ==
    [][ \A j \in VehicleIx : \A i \in AgentIx :
          /\ SetDown(i, j)
               => LET step == moveToward(ArrivalStop(j).location, agents[i].targetLocation,
                                         WALKING_SPEED_KM_PER_MIN)
                  IN  /\ ~SeqIncludes(vehicles'[j].passengers, agents[i].id)
                      /\ agents'[i].currentRouteId = NULL
                      /\ agents'[i].currentLocation = step.position
                      /\ agents'[i].state = IF step.arrived THEN "at_destination"
                                            ELSE "walking_to_dest"
          /\ CarriedOn(i, j)
               => /\ SeqIncludes(vehicles'[j].passengers, agents[i].id)
                  /\ agents'[i].state = "riding" ]_vars

\* A passenger has just been set down, more than a walking step from its
\* target, by a vehicle that carries another passenger on.
C30_Witness ==
    \E i \in AgentIx : \E j \in VehicleIx :
        /\ prevAgents[i].state = "riding"
        /\ agents[i].state = "walking_to_dest"
        /\ agents[i].currentRouteId = NULL
        /\ vehicles[j].progress = 0
        /\ agents[i].destinationStopId
             = RouteOf(j).stopIds[vehicles[j].currentStopIndex + 1]
        /\ \E k \in AgentIx :
             /\ prevAgents[k].state = "riding"
             /\ agents[k].state = "riding"
             /\ SeqIncludes(vehicles[j].passengers, agents[k].id)

----------------------------------------------------------------------------
(* engine.ts: moveToward, called on its own *)

\* The points of the line the calls are made on.
MaxCoordinate == 25

\* The per-tick steps: a walking step and a bus step.
MoveSteps == { WALKING_SPEED_KM_PER_MIN, BUS_SPEED_KM_PER_MIN }

InitMove ==
    /\ EngineIdle
    /\ FlowIdle
    /\ GraphIdle
    /\ RoutesIdle
    /\ HookIdle
    /\ scheduled = << >>
    /\ moved \in [ current : 0..MaxCoordinate, target : 0..MaxCoordinate,
                   step : MoveSteps, called : { FALSE },
                   position : { 0 }, arrived : { FALSE }, distanceKm : { 0 } ]

MoveToward ==
    /\ ~moved.called
    /\ LET result == moveToward(moved.current, moved.target, moved.step)
       IN  moved' = [ moved EXCEPT !.called = TRUE,
                                   !.position = result.position,
                                   !.arrived = result.arrived,
                                   !.distanceKm = result.distanceKm ]
    /\ UNCHANGED << engineVars, flowVars, graphVars, routeVars, hookVars, scheduled >>

NextMove == MoveToward

SpecMove == InitMove /\ [][NextMove]_vars

\* C28: within one step of the target moveToward returns the target itself,
\* arrived, and the remaining distance as the distance moved; further away it
\* returns not arrived, the step as the distance moved, and a position between
\* the current one and the target.
C28_MoveToward ==
    moved.called
      => LET dist == haversineDistance(moved.current, moved.target)
         IN  IF dist <= moved.step
             THEN /\ moved.position = moved.target
                  /\ moved.arrived
                  /\ moved.distanceKm = dist
             ELSE /\ ~moved.arrived
                  /\ moved.distanceKm = moved.step
                  /\ haversineDistance(moved.current, moved.position) = moved.step
                  /\ haversineDistance(moved.current, moved.position)
                       + haversineDistance(moved.position, moved.target) = dist

\* A call with the target closer than a walking step, and it arrived there.
C28_Witness ==
    /\ moved.called
    /\ moved.step = WALKING_SPEED_KM_PER_MIN
    /\ haversineDistance(moved.current, moved.target) = 3
    /\ moved.arrived
    /\ moved.distanceKm = 3

----------------------------------------------------------------------------
(* Flow, waiting time, passenger lists and counters across stepSimulation ticks *)

\* The sum of the counts of all edges of a flow accumulator.
FlowCount(f) == SumOver(DOMAIN f, [ k \in DOMAIN f |-> f[k].count ])

\* The passengers that reach the next stop of their ride in this step, with the
\* vehicle that carries them: one path edge completed each.
RidingArrivals ==
    { ij \in AgentIx \X VehicleIx :
        /\ Arrives(ij[2])
        /\ SeqIncludes(vehicles[ij[2]].passengers, agents[ij[1]].id)
        /\ agents[ij[1]].state = "riding" }

\* C31: every arrival of a riding agent at the next stop adds exactly one flow
\* record, and nothing else does: the sum of all flow counts grows in every
\* step by the number of riding agents that reached a stop in that step.
C31_FlowPerArrival ==
    [][ FlowCount(flow') = FlowCount(flow) + Cardinality(RidingArrivals) ]_vars

\* C32: an agent leaves waiting for walking_to_dest only in the sixteenth
\* tick or later of the wait it is in: it has begun and ended at least 15
\* ticks of this wait in waiting before the tick that sends it walking.
C32_TimeoutPerWait ==
    [][ \A i \in AgentIx :
          ( /\ agents[i].state = "waiting"
            /\ agents'[i].state = "walking_to_dest" )
          => waitStreak[i] >= 15 ]_vars

\* The number of vehicles whose passenger list holds the agent, counted with
\* repetitions within one list.
PassengerEntries(i) ==
    SumOver(VehicleIx,
            [ j \in VehicleIx |->
                Cardinality({ k \in 1..Len(vehicles[j].passengers) :
                                vehicles[j].passengers[k] = agents[i].id }) ])

\* C36: an agent is riding exactly when it stands once in the passenger list
\* of one vehicle, and no agent stands in two lists or twice in one list.
C36_RidingIffPassenger ==
    \A i \in AgentIx :
        /\ PassengerEntries(i) <= 1
        /\ (agents[i].state = "riding") <=> (PassengerEntries(i) = 1)

\* One agent rides while the other, set down earlier in the run, is on no list.
C36_Witness ==
    \E i, k \in AgentIx :
        /\ agents[i].state = "riding"
        /\ PassengerEntries(i) = 1
        /\ agents[k].ridingTime > 0
        /\ agents[k].state \in { "walking_to_dest", "at_destination" }
        /\ PassengerEntries(k) = 0

\* C37: after every tick totalTimeSpent is the sum of the walking, waiting and
\* riding times; none of the three, nor totalTimeSpent, distanceTraveled or
\* carbonEmitted, decreases; and totalTimeSpent grows by at most 1.
C37_Counters ==
    [][ \A i \in AgentIx :
          /\ agents'[i].totalTimeSpent
               = agents'[i].walkingTime + agents'[i].waitingTime + agents'[i].ridingTime
          /\ agents'[i].walkingTime >= agents[i].walkingTime
          /\ agents'[i].waitingTime >= agents[i].waitingTime
          /\ agents'[i].ridingTime >= agents[i].ridingTime
          /\ agents'[i].distanceTraveled >= agents[i].distanceTraveled
          /\ agents'[i].carbonEmitted >= agents[i].carbonEmitted
          /\ agents'[i].totalTimeSpent >= agents[i].totalTimeSpent
          /\ agents'[i].totalTimeSpent <= agents[i].totalTimeSpent + 1 ]_vars

\* An agent has walked, waited and ridden, in the tick in which a vehicle took
\* it aboard: its riding minute was counted by the vehicle pass of that tick.
C37_Witness ==
    \E i \in AgentIx :
        /\ prevAgents[i].state = "waiting"
        /\ agents[i].state = "riding"
        /\ agents[i].walkingTime > 0
        /\ agents[i].waitingTime > 0
        /\ agents[i].ridingTime = 1
        /\ agents[i].totalTimeSpent = prevAgents[i].totalTimeSpent + 1

----------------------------------------------------------------------------
(* Reset, the baseline snapshot and the simulated window in useSimulation.ts *)

\* C33: a start or a generateFromFlow call that was awaiting its result when
\* reset ran does not bring the run back: if the step after a reset is the
\* resolution of such a call, the simulation is still not running and the
\* agent list still empty.
C33_ResetCancelsPending ==
    [][ ( /\ lastCommand = "reset"
          /\ lastCommand' \in { "started", "proposal" } )
        => /\ ~isRunning'
           /\ agents' = << >> ]_vars

\* C34: the baseline snapshot is set only by a step taken in the baseline
\* scenario, and the traversals it counts are those the flow accumulator held
\* in that step.
C34_BaselineFromBaselineRun ==
    [][ ( /\ analysis'.baseline # analysis.baseline
          /\ analysis'.baseline # Nothing )
        => /\ scenario = "baseline"
           /\ analysis'.baseline[1].totalTraversals = FlowCount(flow) ]_vars

SimWindow == simStartMinute..(simStartMinute + simDurationMinutes)

\* C38: while the simulation is running the minute is within the simulated
\* window, both ends included, and a timer tick at the end minute pauses the
\* run and changes neither the agents, the flow nor the minute.
C38_MinuteWithinWindow ==
    [][ /\ isRunning' => currentMinute' \in SimWindow
        /\ ( /\ lastCommand' = "tick"
             /\ currentMinute >= simStartMinute + simDurationMinutes )
           => /\ isPaused'
              /\ agents' = agents
              /\ flow' = flow
              /\ currentMinute' = currentMinute ]_vars

\* The timer ticked at the end minute of a run whose agents had travelled:
\* the run is paused at the end minute with the agents as they were.
C38_Witness ==
    /\ lastCommand = "tick"
    /\ isRunning
    /\ isPaused
    /\ currentMinute = simStartMinute + simDurationMinutes
    /\ agents # << >>
    /\ prevAgents = agents
    /\ \E i \in AgentIx : agents[i].totalTimeSpent > 0

----------------------------------------------------------------------------
(* Trips come to an end: stepSimulation under ticks that keep occurring *)

\* Every departure of the run is due at the last minute counted.
AllDeparturesDue ==
    \A i \in 1..Len(agents) : \A n \in 1..Len(agents[i].schedule) :
        agents[i].schedule[n].departureMinute <= MaxMinute

\* The minute after a minute past the last one counted. stepSimulation reads
\* the minute only to compare it with departure minutes, which are all due by
\* then, so every later minute gives the same step; the model keeps two of
\* them and goes from one to the other, which keeps the state space finite.
LateMinute(minute) == IF minute = MaxMinute THEN MaxMinute + 1 ELSE MaxMinute

\* A tick past the last minute counted.
TickOn ==
    /\ currentMinute >= MaxMinute
    /\ ~stepError
    /\ AllDeparturesDue
    /\ LET result == stepSimulation(agents, vehicles, currentMinute, BUS_ROUTES)
       IN  /\ agents' = result.agents
           /\ vehicles' = result.vehicles
           /\ waitStreak' = [ i \in 1..Len(agents) |->
                                IF agents[i].state = "waiting" /\ result.agents[i].state = "waiting"
                                THEN waitStreak[i] + 1 ELSE 0 ]
           /\ stepError' = result.threw
    /\ prevAgents' = agents
    /\ currentMinute' = LateMinute(currentMinute)
    /\ UNCHANGED << BUS_STOPS, BUS_ROUTES, dataModule, flowVars, graphVars,
                    routeVars, hookVars, unitVars >>

\* What every tick does to the minute, and when a tick is possible: the steps
\* that change the minute are the ticks.
MinutePasses ==
    /\ ~stepError
    /\ currentMinute >= MaxMinute => AllDeparturesDue
    /\ currentMinute' = IF currentMinute < MaxMinute THEN currentMinute + 1
                        ELSE LateMinute(currentMinute)

NextLive ==
    \/ Tick
    \/ TickOn

\* Any agent of the run, beside one that lives by s1 and leaves at minute 1 for
\* the place by s3, on any of the routes: the two contend for the seats of a
\* vehicle.
InitLive ==
    /\ BUS_STOPS = StopLayout
    /\ BUS_ROUTES \in VehicleRoutes
    /\ dataModule \in { "part_000", "part_001" }
    /\ agents \in { << a0, createAgent(AgentIds[2], 3,
                                       << [ departureMinute |-> 1, destination |-> 88 ] >>) >> :
                       a0 \in InitialAgent(1) }
    /\ vehicles = createVehicles(BUS_ROUTES)
    /\ currentMinute = 0
    /\ waitStreak = [ i \in 1..Len(agents) |-> 0 ]
    /\ prevAgents = agents
    /\ stepError = FALSE
    /\ FlowIdle
    /\ GraphIdle
    /\ RoutesIdle
    /\ HookIdle
    /\ UnitIdle

\* The interval of the hook keeps firing while the run is on: a tick that
\* stays possible is eventually taken. Every step of NextLive is a tick and
\* changes the minute, so fairness is stated on the minute.
SpecLive == InitLive /\ [][NextLive]_vars /\ WF_currentMinute(MinutePasses)

Travelling(i) ==
    agents[i].state \in { "walking_to_stop", "waiting", "riding", "walking_to_dest" }

\* C35: an agent that is under way on a trip is eventually at_destination on
\* that trip: it does not stay in walking_to_stop, waiting, riding or
\* walking_to_dest for ever.
C35_TripsEnd ==
    \A i \in 1..Len(AgentIds) : \A k \in 1..2 :
        (Travelling(i) /\ agents[i].currentScheduleIndex = k)
          ~> (agents[i].state = "at_destination" /\ agents[i].currentScheduleIndex = k)

\* An agent has arrived on its second trip after a wait that ran out and a
\* ride: every travelling state has been passed through and left.
C35_Witness ==
    \E i \in AgentIx :
        /\ prevAgents[i].state = "walking_to_dest"
        /\ agents[i].state = "at_destination"
        /\ agents[i].currentScheduleIndex = 2
        /\ agents[i].waitingTime > WAIT_LIMIT
        /\ agents[i].ridingTime > 0

====
